---- MODULE Spec2Model ----
(***************************************************************************)
(* Structural coverage auditor (scripts/coverage-audit.py): element        *)
(* extraction, analysis index, coverage check, gap classification, shared  *)
(* element detection and the run_audit orchestration.                      *)
(*                                                                         *)
(* Text (names, file names, document lines) is a sequence of one-character *)
(* strings, so that lower(), islower(), len() and the regular expressions  *)
(* of the script are computed character by character.                      *)
(***************************************************************************)
EXTENDS Integers, Sequences, FiniteSets, TLC

VARIABLES
    pc,     \* position: "call"/"return" of a single function call, or the
            \* phase of run_audit
    call,   \* the function called and its arguments
    ret,    \* its return value
    sf_index,   \* run_audit: index of the source file the current loop is at
    all_source_files,
    all_elements_by_file,
    total_elements,
    analysis_index,
    coverage_counts,
    gaps,
    total_elements_covered,
    shared_elements,
    triage,
    state_files,    \* context watchdog: /tmp/fi-watchdog-{session_id}.json by
                    \* session_id
    hook,           \* context watchdog: the hook processes, each with its
                    \* position in main(), its input and its local variables
    events          \* context watchdog: what the finished hook processes did

\* the local variables of run_audit
locals == <<sf_index, all_source_files, all_elements_by_file, total_elements,
            analysis_index, coverage_counts, gaps, total_elements_covered,
            shared_elements, triage>>

\* the state of the context watchdog
hookvars == <<state_files, hook, events>>

vars == <<pc, call, ret, locals, hookvars>>

\* the local variables of run_audit before its first statement
NoLocals ==
    /\ sf_index = 1
    /\ all_source_files = <<>>
    /\ all_elements_by_file = <<>>
    /\ total_elements = 0
    /\ analysis_index = [_index |-> <<>>, _filename_index |-> <<>>, _built |-> FALSE]
    /\ coverage_counts = [adequate |-> 0, shallow |-> 0, missing |-> 0]
    /\ gaps = <<>>
    /\ total_elements_covered = 0
    /\ shared_elements = <<>>
    /\ triage = <<>>

\* no hook process has run
NoHooks ==
    /\ state_files = <<>>
    /\ hook = <<>>
    /\ events = <<>>

----------------------------------------------------------------------------
(* Characters and the str methods used by the script *)

LowerLetters == <<"a","b","c","d","e","f","g","h","i","j","k","l","m",
                  "n","o","p","q","r","s","t","u","v","w","x","y","z">>

UpperLetters == <<"A","B","C","D","E","F","G","H","I","J","K","L","M",
                  "N","O","P","Q","R","S","T","U","V","W","X","Y","Z">>

Digits == <<"0","1","2","3","4","5","6","7","8","9">>

LowerSet == {LowerLetters[i] : i \in 1..26}

UpperSet == {UpperLetters[i] : i \in 1..26}

DigitSet == {"0","1","2","3","4","5","6","7","8","9"}

\* regex class \w
IsWordChar(c) == c \in LowerSet \cup UpperSet \cup DigitSet \cup {"_"}

\* regex class [A-Za-z_]
IsIdentStart(c) == c \in LowerSet \cup UpperSet \cup {"_"}

LowerChar(c) ==
    IF c \in UpperSet
    THEN LowerLetters[CHOOSE i \in 1..26 : UpperLetters[i] = c]
    ELSE c

\* str.lower()
lower(s) == [i \in 1..Len(s) |-> LowerChar(s[i])]

\* islower that wants every character to be a lower-case letter
islower_letters_only(s) ==
    Len(s) > 0 /\ \A i \in 1..Len(s) : s[i] \in LowerSet

\* str.islower(): at least one cased character and no upper-case one
islower(s) ==
    /\ \E i \in 1..Len(s) : s[i] \in LowerSet
    /\ \A i \in 1..Len(s) : s[i] \notin UpperSet

\* regex \w+ matching the whole of s
IsWord(s) == Len(s) > 0 /\ \A i \in 1..Len(s) : IsWordChar(s[i])

\* s.endswith(suffix)
EndsWith(s, suffix) ==
    /\ Len(s) >= Len(suffix)
    /\ SubSeq(s, Len(s) - Len(suffix) + 1, Len(s)) = suffix

\* s.startswith(prefix)
StartsWith(s, prefix) ==
    /\ Len(s) >= Len(prefix)
    /\ SubSeq(s, 1, Len(prefix)) = prefix

\* sub in s
Contains(s, sub) ==
    \E i \in 1..(Len(s) - Len(sub) + 1) : SubSeq(s, i, i + Len(sub) - 1) = sub

----------------------------------------------------------------------------
(* Configuration *)

SKIP_ELEMENT_NAMES == {
    <<"c","o","n","s","t","r","u","c","t","o","r">>,
    <<"_","_","i","n","i","t","_","_">>,
    <<"_","_","d","e","l","_","_">>,
    <<"_","_","s","t","r","_","_">>,
    <<"_","_","r","e","p","r","_","_">>,
    <<"_","_","e","q","_","_">>,
    <<"_","_","h","a","s","h","_","_">>,
    <<"_","_","l","e","n","_","_">>,
    <<"_","_","i","t","e","r","_","_">>,
    <<"_","_","n","e","x","t","_","_">>,
    <<"_","_","e","n","t","e","r","_","_">>,
    <<"_","_","e","x","i","t","_","_">>,
    <<"_","_","g","e","t","a","t","t","r","_","_">>,
    <<"_","_","s","e","t","a","t","t","r","_","_">>,
    <<"_","_","g","e","t","i","t","e","m","_","_">>,
    <<"_","_","s","e","t","i","t","e","m","_","_">>,
    <<"t","o","S","t","r","i","n","g">>,
    <<"h","a","s","h","C","o","d","e">>,
    <<"e","q","u","a","l","s">>,
    <<"d","i","s","p","o","s","e">>,
    <<"f","i","n","a","l","i","z","e">>,
    <<"c","l","o","n","e">>,
    <<"i","n","i","t">>,
    <<"s","e","t","u","p">>,
    <<"t","e","a","r","d","o","w","n">>,
    <<"c","o","n","f","i","g","u","r","e">>,
    <<"r","e","g","i","s","t","e","r">>,
    <<"g","e","t">>,
    <<"s","e","t">>,
    <<"g","e","t","t","e","r">>,
    <<"s","e","t","t","e","r">>,
    <<"r","e","n","d","e","r">>,
    <<"m","o","u","n","t">>,
    <<"u","n","m","o","u","n","t">>,
    <<"u","p","d","a","t","e">>,
    <<"d","e","s","t","r","o","y">>,
    <<"c","o","m","p","o","n","e","n","t","D","i","d","M","o","u","n","t">>,
    <<"c","o","m","p","o","n","e","n","t","W","i","l","l","U","n","m","o","u","n","t">>,
    <<"c","o","m","p","o","n","e","n","t","D","i","d","U","p","d","a","t","e">>,
    <<"n","g","O","n","I","n","i","t">>,
    <<"n","g","O","n","D","e","s","t","r","o","y">>,
    <<"n","g","O","n","C","h","a","n","g","e","s">>,
    <<"c","r","e","a","t","e","d">>,
    <<"m","o","u","n","t","e","d">>,
    <<"u","p","d","a","t","e","d">>,
    <<"d","e","s","t","r","o","y","e","d">>,
    <<"b","e","f","o","r","e","C","r","e","a","t","e">>,
    <<"b","e","f","o","r","e","M","o","u","n","t">>,
    <<"b","e","f","o","r","e","U","p","d","a","t","e">>,
    <<"b","e","f","o","r","e","D","e","s","t","r","o","y">>,
    <<"m","a","i","n">>,
    <<"r","u","n">>,
    <<"s","t","a","r","t">>,
    <<"s","t","o","p">>,
    <<"e","x","e","c","u","t","e">>,
    <<"t","e","s","t">>,
    <<"i","t">>,
    <<"d","e","s","c","r","i","b","e">>,
    <<"b","e","f","o","r","e","E","a","c","h">>,
    <<"a","f","t","e","r","E","a","c","h">>,
    <<"b","e","f","o","r","e","A","l","l">>,
    <<"a","f","t","e","r","A","l","l">>,
    <<"s","e","t","U","p">>,
    <<"t","e","a","r","D","o","w","n">>,
    <<"t","o","J","S","O","N">>,
    <<"f","r","o","m","J","S","O","N">>,
    <<"s","e","r","i","a","l","i","z","e">>,
    <<"d","e","s","e","r","i","a","l","i","z","e">>,
    <<"p","a","r","s","e">>,
    <<"s","t","r","i","n","g","i","f","y">>,
    <<"t","o","D","i","c","t">>,
    <<"f","r","o","m","_","d","i","c","t">>,
    <<"t","o","_","d","i","c","t">>,
    <<"i","n","d","e","x">>,
    <<"s","h","o","w">>,
    <<"n","e","w">>,
    <<"e","d","i","t">>,
    <<"c","r","e","a","t","e">>,
    <<"s","t","o","r","e">>,
    <<"d","e","l","e","t","e">>,
    <<"r","e","m","o","v","e">>
}

MIN_ELEMENT_NAME_LENGTH == 3

SHARED_ELEMENT_MIN_CALLERS == 2

ADEQUATE_COVERAGE_PCT == 60

----------------------------------------------------------------------------
(* Source text.  A source line is a statement form with one name in it;    *)
(* its text is FormPrefix \o name \o FormSuffix.  Each form is a statement *)
(* shape that one of the registry's regular expressions is written for.    *)

FormPrefix(form) ==
    CASE form = "function" -> <<"f","u","n","c","t","i","o","n"," ">>
      [] form = "export_default_function" -> <<"e","x","p","o","r","t"," ","d","e","f","a","u","l","t"," ","f","u","n","c","t","i","o","n"," ">>
      [] form = "arrow" -> <<"c","o","n","s","t"," ">>
      [] form = "class" -> <<"c","l","a","s","s"," ">>
      [] form = "method" -> <<" "," ">>
      [] form = "js_route" -> <<"a","p","p",".","g","e","t","(","'">>
      [] form = "def" -> <<"d","e","f"," ">>
      [] form = "py_route" -> <<"@","a","p","p",".","r","o","u","t","e","(","'">>
      [] form = "module" -> <<"m","o","d","u","l","e"," ">>
      [] form = "rb_route" -> <<"g","e","t"," ","'">>
      [] form = "public_method" -> <<"p","u","b","l","i","c"," ","v","o","i","d"," ">>
      [] form = "interface" -> <<"i","n","t","e","r","f","a","c","e"," ">>
      [] form = "enum" -> <<"e","n","u","m"," ">>
      [] form = "cs_route" -> <<"[","H","t","t","p","G","e","t","(","\"">>
      [] form = "java_route" -> <<"@","G","e","t","M","a","p","p","i","n","g","(","\"">>
      [] form = "go_func" -> <<"f","u","n","c"," ">>
      [] form = "go_method" -> <<"f","u","n","c"," ","(","r"," ","*","R","e","c","v",")"," ">>
      [] form = "go_struct" -> <<"t","y","p","e"," ">>
      [] form = "go_interface" -> <<"t","y","p","e"," ">>
      [] form = "c_function" -> <<"i","n","t"," ">>
      [] form = "struct" -> <<"s","t","r","u","c","t"," ">>
      [] form = "namespace" -> <<"n","a","m","e","s","p","a","c","e"," ">>
      [] form = "sql_table" -> <<"C","R","E","A","T","E"," ","T","A","B","L","E"," ">>
      [] form = "sql_function" -> <<"C","R","E","A","T","E"," ","F","U","N","C","T","I","O","N"," ">>
      [] form = "sql_trigger" -> <<"C","R","E","A","T","E"," ","T","R","I","G","G","E","R"," ">>
      [] form = "ref" -> <<" "," "," "," ","r","e","t","u","r","n"," ">>

FormSuffix(form) ==
    CASE form = "function" -> <<"(",")"," ","{">>
      [] form = "export_default_function" -> <<"(",")"," ","{">>
      [] form = "arrow" -> <<" ","="," ","(",")"," ","=",">"," ","{">>
      [] form = "class" -> <<" ","{">>
      [] form = "method" -> <<"(",")"," ","{">>
      [] form = "js_route" -> <<"'",","," ","h","a","n","d","l","e","r",")",";">>
      [] form = "def" -> <<"(","s","e","l","f",")",":">>
      [] form = "py_route" -> <<"'",")">>
      [] form = "module" -> <<>>
      [] form = "rb_route" -> <<"'">>
      [] form = "public_method" -> <<"(",")"," ","{">>
      [] form = "interface" -> <<" ","{">>
      [] form = "enum" -> <<" ","{">>
      [] form = "cs_route" -> <<"\"",")","]">>
      [] form = "java_route" -> <<"\"",")">>
      [] form = "go_func" -> <<"(",")"," ","{">>
      [] form = "go_method" -> <<"(",")"," ","{">>
      [] form = "go_struct" -> <<" ","s","t","r","u","c","t"," ","{">>
      [] form = "go_interface" -> <<" ","i","n","t","e","r","f","a","c","e"," ","{">>
      [] form = "c_function" -> <<"(","v","o","i","d",")"," ","{">>
      [] form = "struct" -> <<" ","{">>
      [] form = "namespace" -> <<" ","{">>
      [] form = "sql_table" -> <<" ","(">>
      [] form = "sql_function" -> <<"(">>
      [] form = "sql_trigger" -> <<" ","B","E","F","O","R","E"," ","I","N","S","E","R","T">>
      [] form = "ref" -> <<"(","t","o","k","e","n",")",";">>

Forms == {"function", "export_default_function", "arrow", "class", "method",
          "js_route", "def", "py_route", "module", "rb_route", "public_method",
          "interface", "enum", "cs_route", "java_route", "go_func", "go_method",
          "go_struct", "go_interface", "c_function", "struct", "namespace",
          "sql_table", "sql_function", "sql_trigger", "ref"}

\* the text of one source line
Render(line) == FormPrefix(line.form) \o line.name \o FormSuffix(line.form)

----------------------------------------------------------------------------
(* Pattern registry: per extension, the ordered (pattern, element type)    *)
(* rules.  A pattern is given by the statement forms it matches and by     *)
(* whether its capturing group is (\w+) (word) or a quoted path ([^'"]+).  *)

Rule(forms, type, word) == [forms |-> forms, type |-> type, word |-> word]

js_ts == <<
    Rule({"function", "export_default_function"}, "function", TRUE),
    Rule({"arrow"}, "function", TRUE),
    Rule({"class"}, "class", TRUE),
    Rule({"method"}, "method", TRUE),
    Rule({"js_route", "py_route"}, "route", FALSE),
    Rule({"export_default_function"}, "component", TRUE) >>

py == <<
    Rule({"def"}, "function", TRUE),
    Rule({"class"}, "class", TRUE),
    Rule({"py_route"}, "route", FALSE) >>

rb == <<
    Rule({"def"}, "function", TRUE),
    Rule({"class"}, "class", TRUE),
    Rule({"module"}, "module", TRUE),
    Rule({"rb_route"}, "route", FALSE) >>

cs == <<
    Rule({"public_method"}, "method", TRUE),
    Rule({"class"}, "class", TRUE),
    Rule({"interface"}, "interface", TRUE),
    Rule({"enum"}, "enum", TRUE),
    Rule({"cs_route"}, "route", FALSE) >>

java == <<
    Rule({"public_method"}, "method", TRUE),
    Rule({"class"}, "class", TRUE),
    Rule({"interface"}, "interface", TRUE),
    Rule({"enum"}, "enum", TRUE),
    Rule({"java_route"}, "route", FALSE) >>

go == <<
    Rule({"go_func"}, "function", TRUE),
    Rule({"go_method"}, "method", TRUE),
    Rule({"go_struct"}, "struct", TRUE),
    Rule({"go_interface"}, "interface", TRUE) >>

php == <<
    Rule({"function", "export_default_function"}, "function", TRUE),
    Rule({"class"}, "class", TRUE),
    Rule({"interface"}, "interface", TRUE) >>

c_cpp == <<
    Rule({"c_function", "function", "export_default_function", "go_func",
          "public_method"}, "function", TRUE),
    Rule({"class"}, "class", TRUE),
    Rule({"struct"}, "struct", TRUE),
    Rule({"enum"}, "enum", TRUE),
    Rule({"namespace"}, "namespace", TRUE) >>

sql == <<
    Rule({"sql_table"}, "table", TRUE),
    Rule({"sql_function"}, "function", TRUE),
    Rule({"sql_trigger"}, "trigger", TRUE) >>

\* file extensions, by name
Ext == [
    js |-> <<".","j","s">>,
    jsx |-> <<".","j","s","x">>,
    ts |-> <<".","t","s">>,
    tsx |-> <<".","t","s","x">>,
    vue |-> <<".","v","u","e">>,
    svelte |-> <<".","s","v","e","l","t","e">>,
    py |-> <<".","p","y">>,
    rb |-> <<".","r","b">>,
    cs |-> <<".","c","s">>,
    razor |-> <<".","r","a","z","o","r">>,
    java |-> <<".","j","a","v","a">>,
    go |-> <<".","g","o">>,
    php |-> <<".","p","h","p">>,
    c |-> <<".","c">>,
    cpp |-> <<".","c","p","p">>,
    h |-> <<".","h">>,
    sql |-> <<".","s","q","l">>,
    txt |-> <<".","t","x","t">> ]

SOURCE_EXTENSIONS == {Ext.js, Ext.jsx, Ext.ts, Ext.tsx, Ext.py, Ext.rb, Ext.cs,
                      Ext.java, Ext.go, Ext.vue, Ext.svelte, Ext.php, Ext.razor,
                      Ext.cpp, Ext.c, Ext.h, Ext.sql}

\* ELEMENT_PATTERNS.get(extension, [])
ELEMENT_PATTERNS(extension) ==
    CASE extension \in {Ext.js, Ext.jsx, Ext.ts, Ext.tsx, Ext.vue, Ext.svelte} -> js_ts
      [] extension = Ext.py -> py
      [] extension = Ext.rb -> rb
      [] extension \in {Ext.cs, Ext.razor} -> cs
      [] extension = Ext.java -> java
      [] extension = Ext.go -> go
      [] extension = Ext.php -> php
      [] extension \in {Ext.c, Ext.cpp, Ext.h} -> c_cpp
      [] extension = Ext.sql -> sql
      [] OTHER -> <<>>

----------------------------------------------------------------------------
(* Element extraction *)

\* pattern.finditer(content): the matches of one rule, in content order,
\* each with its captured name and its 1-based line number
RECURSIVE finditer(_, _, _)
finditer(rule, content, i) ==
    IF i > Len(content) THEN <<>>
    ELSE LET line == content[i]
             hit  == /\ line.form \in rule.forms
                     /\ rule.word => IsWord(line.name)
                     /\ Len(line.name) > 0
         IN  (IF hit THEN <<[name |-> line.name, type |-> rule.type, line |-> i]>>
                     ELSE <<>>) \o finditer(rule, content, i + 1)

\* AllMatches that goes through the file line by line, trying every rule on
\* each line; r counts the lines
RECURSIVE AllMatches_by_line(_, _, _)
AllMatches_by_line(patterns, content, r) ==
    IF r > Len(content) THEN <<>>
    ELSE LET of_rule(q) ==
                 LET found == finditer(patterns[q], <<content[r]>>, 1)
                 IN  [k \in 1..Len(found) |-> [found[k] EXCEPT !.line = r]]
             upto[q \in 0..Len(patterns)] ==
                 IF q = 0 THEN <<>> ELSE upto[q - 1] \o of_rule(q)
         IN  upto[Len(patterns)] \o AllMatches_by_line(patterns, content, r + 1)

\* the matches of all rules, rule by rule in registry order
RECURSIVE AllMatches(_, _, _)
AllMatches(patterns, content, r) ==
    IF r > Len(patterns) THEN <<>>
    ELSE finditer(patterns[r], content, 1) \o AllMatches(patterns, content, r + 1)

\* the test that discards a captured name as too generic
IsSkipName(name) == lower(name) \in SKIP_ELEMENT_NAMES

\* the body of the two loops: filter each match against the minimum length,
\* the skip set and the names already seen
RECURSIVE ExtractLoop(_, _, _, _)
ExtractLoop(matches, k, elements, seen_names) ==
    IF k > Len(matches) THEN elements
    ELSE LET m == matches[k] IN
         IF Len(m.name) < MIN_ELEMENT_NAME_LENGTH
            THEN ExtractLoop(matches, k + 1, elements, seen_names)
         ELSE IF IsSkipName(m.name)
            THEN ExtractLoop(matches, k + 1, elements, seen_names)
         ELSE IF m.name \in seen_names
            THEN ExtractLoop(matches, k + 1, elements, seen_names)
         ELSE ExtractLoop(matches, k + 1, Append(elements, m),
                          seen_names \cup {m.name})

\* extract_elements that takes the content without the except OSError
extract_elements_reading_anyway(file, extension) ==
    LET patterns == ELEMENT_PATTERNS(extension) IN
    IF patterns = <<>> THEN <<>>
    ELSE ExtractLoop(AllMatches(patterns, file.content, 1), 1, <<>>, {})

\* extract_elements(file_path, extension); file is what file_path holds:
\* readable is FALSE when open() raises OSError
extract_elements(file, extension) ==
    LET patterns == ELEMENT_PATTERNS(extension) IN
    IF patterns = <<>> THEN <<>>
    ELSE IF ~file.readable THEN <<>>
    ELSE ExtractLoop(AllMatches(patterns, file.content, 1), 1, <<>>, {})

----------------------------------------------------------------------------
(* Tokenization of one line of text *)

\* the maximal \w runs of s, each with the separator text that precedes it
RECURSIVE ScanRuns(_, _, _, _, _)
ScanRuns(s, i, pre, w, acc) ==
    IF i > Len(s)
    THEN (IF w = <<>> THEN acc ELSE Append(acc, [pre |-> pre, w |-> w]))
    ELSE IF IsWordChar(s[i]) THEN ScanRuns(s, i + 1, pre, Append(w, s[i]), acc)
    ELSE IF w = <<>> THEN ScanRuns(s, i + 1, Append(pre, s[i]), w, acc)
    ELSE ScanRuns(s, i + 1, <<s[i]>>, <<>>, Append(acc, [pre |-> pre, w |-> w]))

\* identifier_re that takes what stands between spaces
identifier_re_between_spaces(line) ==
    LET ends == {0, Len(line) + 1} \cup {k \in 1..Len(line) : line[k] = " "}
    IN  {SubSeq(line, a + 1, b - 1) : <<a, b>> \in
            {p \in ends \X ends : /\ p[1] + 3 < p[2]
                                  /\ \A k \in ends : ~(p[1] < k /\ k < p[2])}}

\* identifier_re.finditer(line) with identifier_re = \b([A-Za-z_]\w{2,})\b :
\* the \w runs that start with a letter or underscore and have 3+ characters
identifier_re(line) ==
    LET runs == ScanRuns(line, 1, <<>>, <<>>, <<>>)
    IN  {runs[k].w : k \in {j \in 1..Len(runs) :
                                /\ IsIdentStart(runs[j].w[1])
                                /\ Len(runs[j].w) >= 3}}

\* re.finditer(r'(\w+\.\w+)', line): leftmost non-overlapping matches; a match
\* is a \w run, one dot, and the \w run that follows it
RECURSIVE filename_re_from(_, _)
filename_re_from(runs, k) ==
    IF k >= Len(runs) THEN {}
    ELSE IF runs[k + 1].pre = <<".">>
         THEN {runs[k].w \o <<".">> \o runs[k + 1].w} \cup filename_re_from(runs, k + 2)
         ELSE filename_re_from(runs, k + 1)

filename_re(line) == filename_re_from(ScanRuns(line, 1, <<>>, <<>>, <<>>), 1)

----------------------------------------------------------------------------
(* Analysis index *)

MD == <<".","m","d">>

\* the documents build() reads: the readable .md files of the directories
\* that exist, each with its path
DocumentsRead(directories) ==
    UNION {{[fpath |-> <<directories[d].path, directories[d].files[k].fname>>,
             lines |-> directories[d].files[k].lines] :
                k \in {j \in 1..Len(directories[d].files) :
                          /\ EndsWith(directories[d].files[j].fname, MD)
                          /\ directories[d].files[j].readable}} :
           d \in {e \in 1..Len(directories) : directories[e].isdir}}

\* the tokens build() takes from one line for an index of the given kind
LineTokens(kind, line) ==
    IF kind = "identifier" THEN identifier_re(line) ELSE filename_re(line)

\* a reverse index: token -> set of the paths of the texts that hold it;
\* added is the set of the (token, path) pairs that index[token].add(path)
\* is called with
ReverseIndex(texts, kind) ==
    LET added == UNION {
            UNION {{<<tok, t.fpath>> : tok \in LineTokens(kind, t.lines[i])} :
                      i \in 1..Len(t.lines)} : t \in texts}
    IN  IF added = {}
        THEN <<>>
        ELSE [tok \in {pair[1] : pair \in added} |->
                 {pair[2] : pair \in {q \in added : q[1] = tok}}]

\* AnalysisIndex().build(*directories)
AnalysisIndex_build(directories) ==
    [_index |-> ReverseIndex(DocumentsRead(directories), "identifier"),
     _filename_index |-> ReverseIndex(DocumentsRead(directories), "filename"),
     _built |-> TRUE]

\* is_element_covered that compares the names without their letter case
is_element_covered_ignoring_case(an_index, element_name) ==
    \E token \in DOMAIN an_index._index :
        /\ lower(token) = lower(element_name)
        /\ Cardinality(an_index._index[token]) > 0

is_element_covered(an_index, element_name) ==
    /\ element_name \in DOMAIN an_index._index
    /\ Cardinality(an_index._index[element_name]) > 0

is_filename_mentioned(an_index, filename) ==
    /\ filename \in DOMAIN an_index._filename_index
    /\ Cardinality(an_index._filename_index[filename]) > 0

----------------------------------------------------------------------------
(* Coverage checking *)

\* os.path.basename(path): what follows the last "/"
RECURSIVE basename(_)
basename(path) ==
    IF \E i \in 1..Len(path) : path[i] = "/"
    THEN basename(Tail(path))
    ELSE path

\* round(covered_count / total * 100, 1), in tenths of a percent (600 is
\* 60.0): round half to even.  For the totals used here (below 80, and 402,
\* 403) the float quotient rounds as the exact quotient does.
round1(covered_count, total) ==
    LET q == (1000 * covered_count) \div total
        r == (1000 * covered_count) % total
    IN  IF 2 * r > total \/ (2 * r = total /\ q % 2 = 1) THEN q + 1 ELSE q

\* CoverageStatus deciding on the rounded percentage
CoverageStatus_rounded(covered_count, total, mentioned) ==
    IF round1(covered_count, total) >= 10 * ADEQUATE_COVERAGE_PCT THEN "ADEQUATE"
    ELSE IF covered_count > 0 THEN "SHALLOW"
    ELSE IF mentioned THEN "SHALLOW"
    ELSE "MISSING"

\* the status of a file with elements: pct >= ADEQUATE_COVERAGE_PCT is
\* decided on the unrounded quotient covered_count / total * 100
CoverageStatus(covered_count, total, mentioned) ==
    IF 100 * covered_count >= ADEQUATE_COVERAGE_PCT * total THEN "ADEQUATE"
    ELSE IF covered_count > 0 THEN "SHALLOW"
    ELSE IF mentioned THEN "SHALLOW"
    ELSE "MISSING"

\* the result for a file with no elements
FilenameFallback(mentioned) ==
    [elements_total |-> 0,
     elements_covered |-> 0,
     elements_missing |-> <<>>,
     coverage_pct |-> IF mentioned THEN 1000 ELSE 0,
     status |-> IF mentioned THEN "ADEQUATE" ELSE "MISSING",
     method |-> "filename_fallback"]

check_file_coverage(source_file, elements, an_index) ==
    LET filename == basename(source_file.file)
        names == [k \in 1..Len(elements) |-> elements[k].name]
        IsCovered(n) == is_element_covered(an_index, n)
        IsMissing(n) == ~is_element_covered(an_index, n)
        covered == SelectSeq(names, IsCovered)
        missing == SelectSeq(names, IsMissing)
        total == Len(elements)
        covered_count == Len(covered)
    IN  IF elements = <<>>
        THEN FilenameFallback(is_filename_mentioned(an_index, filename))
        ELSE [elements_total |-> total,
              elements_covered |-> covered_count,
              elements_missing |-> missing,
              coverage_pct |-> round1(covered_count, total),
              status |-> CoverageStatus(covered_count, total,
                            is_filename_mentioned(an_index, filename)),
              method |-> "element_coverage"]

----------------------------------------------------------------------------
(* Gap classification *)

Lit == [
    Test_cs |-> <<"T","e","s","t",".","c","s">>, Tests_cs |-> <<"T","e","s","t","s",".","c","s">>,
    Test_js |-> <<"T","e","s","t",".","j","s">>, Tests_js |-> <<"T","e","s","t","s",".","j","s">>,
    Test_ts |-> <<"T","e","s","t",".","t","s">>, Tests_ts |-> <<"T","e","s","t","s",".","t","s">>,
    Test_tsx |-> <<"T","e","s","t",".","t","s","x">>, Tests_tsx |-> <<"T","e","s","t","s",".","t","s","x">>,
    dot_test_dot |-> <<".","t","e","s","t",".">>, dot_spec_dot |-> <<".","s","p","e","c",".">>,
    js |-> <<"j","s">>, ts |-> <<"t","s">>, tsx |-> <<"t","s","x">>, jsx |-> <<"j","s","x">>,
    test_ |-> <<"t","e","s","t","_">>, dot_py |-> <<".","p","y">>,
    _test_py |-> <<"_","t","e","s","t",".","p","y">>, _test_go |-> <<"_","t","e","s","t",".","g","o">> ]

\* re.search(p, filename) for some p of test_patterns; none of the patterns
\* is anchored at the start of the name
is_test(filename) ==
    \/ \E p \in {Lit.Test_cs, Lit.Tests_cs, Lit.Test_js, Lit.Tests_js,
                 Lit.Test_ts, Lit.Tests_ts, Lit.Test_tsx, Lit.Tests_tsx} :
          EndsWith(filename, p)                     \* Tests?\.cs$ ... Tests?\.tsx$
    \/ \E d \in {Lit.dot_test_dot, Lit.dot_spec_dot} :
          \E e \in {Lit.js, Lit.ts, Lit.tsx, Lit.jsx} :
             EndsWith(filename, d \o e)             \* \.test\.(js|ts|tsx|jsx)$
    \/ \E i \in 1..Len(filename) :                  \* test_.*\.py$
          /\ i + 7 <= Len(filename)
          /\ SubSeq(filename, i, i + 4) = Lit.test_
          /\ EndsWith(filename, Lit.dot_py)
    \/ EndsWith(filename, Lit._test_py)             \* .*_test\.py$
    \/ EndsWith(filename, Lit._test_go)             \* .*_test\.go$

\* the severity of a file that is not a test file
Severity(status, missing_count, source_lines) ==
    IF status = "MISSING"
    THEN (IF source_lines > 200 THEN "CRITICAL" ELSE "IMPORTANT")
    ELSE IF status = "SHALLOW"
    THEN (IF missing_count > 5 \/ source_lines > 500 THEN "CRITICAL"
          ELSE IF missing_count > 2 \/ source_lines > 200 THEN "IMPORTANT"
          ELSE "MINOR")
    ELSE "MINOR"

classify_gap(source_file, status, coverage_result) ==
    IF is_test(basename(source_file.file)) THEN "TEST"
    ELSE Severity(status, Len(coverage_result.elements_missing),
                  source_file.source_lines)

----------------------------------------------------------------------------
(* Source file enumeration *)

DEFAULT_EXCLUDE_DIRS == {
    <<"n","o","d","e","_","m","o","d","u","l","e","s">>,
    <<".","g","i","t">>,
    <<"d","i","s","t">>,
    <<"b","u","i","l","d">>,
    <<"v","e","n","d","o","r">>,
    <<"_","_","p","y","c","a","c","h","e","_","_">>,
    <<"b","i","n">>,
    <<"o","b","j">>,
    <<"p","a","c","k","a","g","e","s">>,
    <<"x","6","4">>,
    <<"D","e","b","u","g">>,
    <<"R","e","l","e","a","s","e">>,
    <<".","p","a","r","c","e","l","-","c","a","c","h","e">> }

\* the components of a path (split at "/"), as Path(p).parts gives them
RECURSIVE SplitPath(_, _, _)
SplitPath(path, k, cur) ==
    IF k > Len(path) THEN (IF cur = <<>> THEN <<>> ELSE <<cur>>)
    ELSE IF path[k] = "/"
         THEN (IF cur = <<>> THEN <<>> ELSE <<cur>>) \o SplitPath(path, k + 1, <<>>)
         ELSE SplitPath(path, k + 1, Append(cur, path[k]))

\* os.path.join(a, b)
join(a, b) == a \o <<"/">> \o b

\* Path(fname).suffix: from the last dot of the name, unless the name starts
\* or ends with it
suffix(fname) ==
    LET dots == {k \in 2..(Len(fname) - 1) : fname[k] = "."}
    IN  IF dots = {} THEN <<>>
        ELSE SubSeq(fname, CHOOSE k \in dots : \A j \in dots : j <= k, Len(fname))

\* count_lines(file_path): the lines of the file, 0 when it cannot be read
count_lines(file) ==
    IF file.readable THEN Len(file.content) + file.pad ELSE 0

should_exclude(file_path, exclude_patterns) ==
    \/ \E part \in {SplitPath(file_path, 1, <<>>)[k] :
                      k \in 1..Len(SplitPath(file_path, 1, <<>>))} :
          part \in DEFAULT_EXCLUDE_DIRS
    \/ \E k \in 1..Len(exclude_patterns) : Contains(file_path, exclude_patterns[k])

\* os.walk reaches rel_path: no directory above it was pruned from dirs[:]
WalkReaches(repo_path, rel_path, exclude_patterns) ==
    LET parts == SplitPath(rel_path, 1, <<>>)
        dir(n) == IF n = 0 THEN repo_path
                  ELSE repo_path \o <<"/">> \o
                       SubSeq(rel_path, 1, CHOOSE e \in 1..Len(rel_path) :
                           /\ rel_path[e + 1] = "/"
                           /\ Cardinality({j \in 1..e : rel_path[j] = "/"}) = n - 1)
    IN  \A n \in 1..(Len(parts) - 1) :
            /\ parts[n] \notin DEFAULT_EXCLUDE_DIRS
            /\ ~should_exclude(dir(n), exclude_patterns)

\* enumerate_source_files(repo_path, exclude_patterns); walk is the sequence
\* of relative paths os.walk yields under repo_path, disk the files by path
RECURSIVE enumerate_source_files(_, _, _, _, _)
enumerate_source_files(repo_path, exclude_patterns, walk, disk, k) ==
    IF k > Len(walk) THEN <<>>
    ELSE LET rel_path == walk[k]
             full_path == join(repo_path, rel_path)
             ext == lower(suffix(basename(rel_path)))
             line_count == count_lines(disk[full_path])
             keep == /\ WalkReaches(repo_path, rel_path, exclude_patterns)
                     /\ ext \in SOURCE_EXTENSIONS
                     /\ ~should_exclude(full_path, exclude_patterns)
                     /\ line_count > 0
         IN  (IF keep
              THEN <<[file |-> rel_path, abs_path |-> full_path,
                      source_lines |-> line_count, repo_path |-> repo_path,
                      extension |-> ext]>>
              ELSE <<>>)
             \o enumerate_source_files(repo_path, exclude_patterns, walk, disk, k + 1)

----------------------------------------------------------------------------
(* dict, sorted() and list.sort() *)

\* a dict is the sequence of its [key, value] items in insertion order
DictHas(d, key) == \E k \in 1..Len(d) : d[k].key = key

\* d.get(key, default)
DictGet(d, key, default) ==
    IF DictHas(d, key) THEN d[CHOOSE k \in 1..Len(d) : d[k].key = key].value
    ELSE default

\* d[key] = value: a key already present keeps its place
DictSet(d, key, value) ==
    IF DictHas(d, key)
    THEN [d EXCEPT ![CHOOSE k \in 1..Len(d) : d[k].key = key].value = value]
    ELSE Append(d, [key |-> key, value |-> value])

\* the characters of the paths used, in code point order
Ascii == <<"-", ".", "/">> \o Digits \o UpperLetters \o <<"_">> \o LowerLetters

Ord(c) == CHOOSE k \in 1..Len(Ascii) : Ascii[k] = c

\* a < b on str
RECURSIVE StrLess(_, _)
StrLess(a, b) ==
    IF b = <<>> THEN FALSE
    ELSE IF a = <<>> THEN TRUE
    ELSE IF a[1] = b[1] THEN StrLess(Tail(a), Tail(b))
    ELSE Ord(a[1]) < Ord(b[1])

\* the hash seeds of a process: the order in which iterating a set of str
\* yields its members depends on the seed (PYTHONHASHSEED is random)
HashSeeds == {0, 1}

\* list(S) for a set of str in a process with the given hash seed
RECURSIVE SetIteration(_, _)
SetIteration(S, hashseed) ==
    IF S = {} THEN <<>>
    ELSE LET m == CHOOSE x \in S : \A y \in S \ {x} :
                      IF hashseed = 0 THEN StrLess(x, y) ELSE StrLess(y, x)
         IN  <<m>> \o SetIteration(S \ {m}, hashseed)

\* the items in the order the iterable yields them
sorted_as_iterated(items) == items

\* sorted(items) for an iterable of str: ascending, whatever the order of
\* the items
RECURSIVE sorted(_)
sorted(items) ==
    IF items = <<>> THEN <<>>
    ELSE LET m == CHOOSE k \in 1..Len(items) :
                      \A j \in 1..Len(items) : ~StrLess(items[j], items[k])
         IN  <<items[m]>> \o
             sorted(SubSeq(items, 1, m - 1) \o SubSeq(items, m + 1, Len(items)))

\* a < b on tuples of int of one length
RECURSIVE TupleLess(_, _)
TupleLess(a, b) ==
    IF a = <<>> THEN FALSE
    ELSE IF a[1] = b[1] THEN TupleLess(Tail(a), Tail(b))
    ELSE a[1] < b[1]

\* x put into the sorted list after every item whose key is not greater
RECURSIVE InsertSorted(_, _)
InsertSorted(keyed, x) ==
    IF keyed = <<>> THEN <<x>>
    ELSE IF TupleLess(x.key, Head(keyed).key) THEN <<x>> \o keyed
    ELSE <<Head(keyed)>> \o InsertSorted(Tail(keyed), x)

\* StableSort that puts an item before the items of its key
RECURSIVE StableSort_ties_reversed(_)
StableSort_ties_reversed(keyed) ==
    IF keyed = <<>> THEN <<>>
    ELSE LET rest == StableSort_ties_reversed(SubSeq(keyed, 1, Len(keyed) - 1))
             x == keyed[Len(keyed)]
             before == SelectSeq(rest, LAMBDA y : TupleLess(y.key, x.key))
             after == SelectSeq(rest, LAMBDA y : ~TupleLess(y.key, x.key))
         IN  before \o <<x>> \o after

\* list.sort(key=...) on a list of [key, item]: ascending by key, stable
RECURSIVE StableSort(_)
StableSort(keyed) ==
    IF keyed = <<>> THEN <<>>
    ELSE InsertSorted(StableSort(SubSeq(keyed, 1, Len(keyed) - 1)), keyed[Len(keyed)])

RECURSIVE Sum(_)
Sum(ints) == IF ints = <<>> THEN 0 ELSE Head(ints) + Sum(Tail(ints))

----------------------------------------------------------------------------
(* Shared element detection *)

\* build_codebase_identifier_index(source_files): identifier -> set of the
\* relative paths (sf["file"]) of the files that hold it
build_codebase_identifier_index(source_files, disk) ==
    ReverseIndex(
        {[fpath |-> source_files[k].file,
          lines |-> [n \in 1..Len(disk[source_files[k].abs_path].content) |->
                        Render(disk[source_files[k].abs_path].content[n])]] :
            k \in {j \in 1..Len(source_files) : disk[source_files[j].abs_path].readable}},
        "identifier")

\* SharedOfFile that leaves the callers in the order the set yields them
RECURSIVE SharedOfFile_unsorted(_, _, _, _, _)
SharedOfFile_unsorted(file_rel_path, elements, codebase_index, hashseed, k) ==
    IF k > Len(elements) THEN <<>>
    ELSE LET elem == elements[k]
             name == elem.name
             referencing_files ==
                 IF name \in DOMAIN codebase_index THEN codebase_index[name] ELSE {}
             callers == SelectSeq(SetIteration(referencing_files, hashseed),
                                  LAMBDA f : f # file_rel_path)
             skip == \/ Len(name) < 4
                     \/ (islower(name) /\ ~Contains(name, <<"_">>))
         IN  (IF ~skip /\ Len(callers) >= SHARED_ELEMENT_MIN_CALLERS
              THEN <<[name |-> name, type |-> elem.type,
                      defined_in |-> file_rel_path, line |-> elem.line,
                      callers |-> callers, caller_count |-> Len(callers)]>>
              ELSE <<>>)
             \o SharedOfFile_unsorted(file_rel_path, elements, codebase_index,
                                      hashseed, k + 1)

\* the entries of one file's elements, from element k on
RECURSIVE SharedOfFile(_, _, _, _, _)
SharedOfFile(file_rel_path, elements, codebase_index, hashseed, k) ==
    IF k > Len(elements) THEN <<>>
    ELSE LET elem == elements[k]
             name == elem.name
             referencing_files ==
                 IF name \in DOMAIN codebase_index THEN codebase_index[name] ELSE {}
             callers == sorted(SelectSeq(SetIteration(referencing_files, hashseed),
                                         LAMBDA f : f # file_rel_path))
             skip == \/ Len(name) < 4
                     \/ (islower(name) /\ ~Contains(name, <<"_">>))
         IN  (IF ~skip /\ Len(callers) >= SHARED_ELEMENT_MIN_CALLERS
              THEN <<[name |-> name, type |-> elem.type,
                      defined_in |-> file_rel_path, line |-> elem.line,
                      callers |-> callers, caller_count |-> Len(callers)]>>
              ELSE <<>>)
             \o SharedOfFile(file_rel_path, elements, codebase_index, hashseed, k + 1)

\* the entries of all files, in the order of all_elements_by_file.items()
RECURSIVE SharedOfFiles(_, _, _, _)
SharedOfFiles(by_file, codebase_index, hashseed, k) ==
    IF k > Len(by_file) THEN <<>>
    ELSE SharedOfFile(by_file[k].key, by_file[k].value, codebase_index, hashseed, 1)
            \o SharedOfFiles(by_file, codebase_index, hashseed, k + 1)

\* detect_shared_elements(all_elements_by_file, codebase_index) in a process
\* with the given hash seed
detect_shared_elements(by_file, codebase_index, hashseed) ==
    LET shared == SharedOfFiles(by_file, codebase_index, hashseed, 1)
        keyed == StableSort([k \in 1..Len(shared) |->
                     [key |-> <<0 - shared[k].caller_count>>, item |-> shared[k]]])
    IN  [k \in 1..Len(keyed) |-> keyed[k].item]

----------------------------------------------------------------------------
(* The phases of run_audit *)

severity_order(severity) ==
    CASE severity = "CRITICAL" -> 0
      [] severity = "IMPORTANT" -> 1
      [] severity = "MINOR" -> 2
      [] severity = "TEST" -> 3
      [] OTHER -> 99

\* GapSortKey with the line count ascending
GapSortKey_lines_ascending(g) ==
    <<severity_order(g.severity), 0 - Len(g.elements_missing), g.source_lines>>

\* the key of gaps.sort
GapSortKey(g) ==
    <<severity_order(g.severity), 0 - Len(g.elements_missing), 0 - g.source_lines>>

sort_gaps(gap_list) ==
    LET keyed == StableSort([k \in 1..Len(gap_list) |->
                     [key |-> GapSortKey(gap_list[k]), item |-> gap_list[k]]])
    IN  [k \in 1..Len(keyed) |-> keyed[k].item]

\* IsGap that lets SHALLOW files pass
IsGap_missing_only(result) == result.status = "MISSING"

\* whether a coverage result makes a gap
IsGap(result) == result.status # "ADEQUATE"

\* the gap record of a file
Gap(sf, result) ==
    [file |-> sf.file, repo |-> sf.repo_name, source_lines |-> sf.source_lines,
     elements_total |-> result.elements_total,
     elements_covered |-> result.elements_covered,
     elements_missing |-> result.elements_missing,
     coverage_pct |-> result.coverage_pct,
     status |-> result.status,
     severity |-> classify_gap(sf, result.status, result),
     method |-> result.method]

\* coverage_counts with the bucket of the status incremented
CountStatus(counts, status) ==
    CASE status = "ADEQUATE" -> [counts EXCEPT !.adequate = @ + 1]
      [] status = "SHALLOW" -> [counts EXCEPT !.shallow = @ + 1]
      [] status = "MISSING" -> [counts EXCEPT !.missing = @ + 1]

\* EnumerateRepos that gives up at the first repo path that is no directory
RECURSIVE EnumerateRepos_stop_at_missing(_, _, _)
EnumerateRepos_stop_at_missing(args, exclude_patterns, r) ==
    IF r > Len(args.plan.repos) THEN <<>>
    ELSE IF args.plan.repos[r].path \notin DOMAIN args.walk THEN <<>>
    ELSE LET repo == args.plan.repos[r]
             files == enumerate_source_files(repo.path, exclude_patterns,
                                             args.walk[repo.path], args.disk, 1)
         IN  [k \in 1..Len(files) |->
                 [file |-> files[k].file, abs_path |-> files[k].abs_path,
                  source_lines |-> files[k].source_lines,
                  repo_path |-> files[k].repo_path,
                  extension |-> files[k].extension, repo_name |-> repo.name]]
             \o EnumerateRepos_stop_at_missing(args, exclude_patterns, r + 1)

\* Phase 1 over the repos of the plan, from repo r on
RECURSIVE EnumerateRepos(_, _, _)
EnumerateRepos(args, exclude_patterns, r) ==
    IF r > Len(args.plan.repos) THEN <<>>
    ELSE LET repo == args.plan.repos[r]
             files == IF repo.path \in DOMAIN args.walk      \* os.path.isdir
                      THEN enumerate_source_files(repo.path, exclude_patterns,
                                                  args.walk[repo.path], args.disk, 1)
                      ELSE <<>>
         IN  [k \in 1..Len(files) |->
                 [file |-> files[k].file, abs_path |-> files[k].abs_path,
                  source_lines |-> files[k].source_lines,
                  repo_path |-> files[k].repo_path,
                  extension |-> files[k].extension, repo_name |-> repo.name]]
             \o EnumerateRepos(args, exclude_patterns, r + 1)

\* build_triage that adds the lines of every gap to every severity
build_triage_lines_of_all(gap_list) ==
    [sev \in {gap_list[k].severity : k \in 1..Len(gap_list)} |->
        LET of == SelectSeq(gap_list, LAMBDA g : g.severity = sev)
        IN  [count |-> Len(of),
             total_lines |->
                 Sum([k \in 1..Len(gap_list) |-> gap_list[k].source_lines]),
             total_missing_elements |->
                 Sum([k \in 1..Len(of) |-> Len(of[k].elements_missing)])]]

\* Phase 6
build_triage(gap_list) ==
    [sev \in {gap_list[k].severity : k \in 1..Len(gap_list)} |->
        LET of == SelectSeq(gap_list, LAMBDA g : g.severity = sev)
        IN  [count |-> Len(of),
             total_lines |-> Sum([k \in 1..Len(of) |-> of[k].source_lines]),
             total_missing_elements |->
                 Sum([k \in 1..Len(of) |-> Len(of[k].elements_missing)])]]

----------------------------------------------------------------------------
(* Inputs *)

MaxLines == 2

\* element names used as inputs
Name == [
    validateToken |-> <<"v","a","l","i","d","a","t","e","T","o","k","e","n">>,
    toString |-> <<"t","o","S","t","r","i","n","g">>,
    get |-> <<"g","e","t">>,
    ab |-> <<"a","b">>,
    api_users |-> <<"/","a","p","i","/","u","s","e","r","s">>,
    doLogin |-> <<"d","o","L","o","g","i","n">>,
    AuthService |-> <<"A","u","t","h","S","e","r","v","i","c","e">>,
    refreshToken |-> <<"r","e","f","r","e","s","h","T","o","k","e","n">>,
    helperOne |-> <<"h","e","l","p","e","r","O","n","e">>,
    helperTwo |-> <<"h","e","l","p","e","r","T","w","o">>,
    audit_log |-> <<"a","u","d","i","t","_","l","o","g">>,
    TestHelper |-> <<"T","e","s","t","H","e","l","p","e","r">> ]

WordNames == {Name.validateToken, Name.toString, Name.get, Name.ab}

RouteNames == {Name.api_users, Name.validateToken}

RouteForms == {"js_route", "py_route", "rb_route", "cs_route", "java_route"}

SeqUpTo(S, n) == UNION {[1..k -> S] : k \in 0..n}

\* the statement forms some rule of the extension is written for
FormsOf(extension) ==
    LET patterns == ELEMENT_PATTERNS(extension)
    IN  UNION {patterns[r].forms : r \in 1..Len(patterns)}

LinesOf(forms) ==
    {[form |-> f, name |-> n] : f \in forms \ RouteForms, n \in WordNames}
        \cup {[form |-> f, name |-> n] : f \in forms \cap RouteForms, n \in RouteNames}

ExtractExtensions == SOURCE_EXTENSIONS \cup {Ext.txt}

----------------------------------------------------------------------------
(* extract_elements as a single call *)

InitExtract ==
    /\ pc = "call"
    /\ \E e \in ExtractExtensions, rd \in BOOLEAN :
         \E c \in SeqUpTo(LinesOf(FormsOf(e) \cup {"ref"}), MaxLines) :
            /\ rd \/ Len(c) <= 1
            /\ call = [fn |-> "extract_elements", extension |-> e,
                       file |-> [readable |-> rd, content |-> c, pad |-> 0]]
    /\ ret = <<>>
    /\ NoLocals
    /\ NoHooks

CallExtract ==
    /\ pc = "call"
    /\ call.fn = "extract_elements"
    /\ ret' = extract_elements(call.file, call.extension)
    /\ pc' = "return"
    /\ UNCHANGED <<call, locals, hookvars>>

NextExtract == CallExtract

SpecExtract == InitExtract /\ [][NextExtract]_vars

\* C3: no element returned by extract_elements has a name that equals,
\* ignoring letter case, an entry of SKIP_ELEMENT_NAMES.
C3_NoSkipNameExtracted ==
    (pc = "return" /\ call.fn = "extract_elements") =>
        \A k \in 1..Len(ret) : \A s \in SKIP_ELEMENT_NAMES :
            lower(ret[k].name) # lower(s)

\* the rules of the registry, by number, that capture the name somewhere
\* in the content
CapturingRules(patterns, content, name) ==
    {r \in 1..Len(patterns) :
        \E i \in 1..Len(content) :
            /\ content[i].name = name
            /\ content[i].form \in patterns[r].forms
            /\ patterns[r].word => IsWord(name)}

\* C14: in the list extract_elements returns for one file every name has at
\* least MIN_ELEMENT_NAME_LENGTH characters and no name occurs twice; the
\* element kept for a name has the kind of the earliest rule, in registry
\* order, that captured the name.
C14_UniqueNamesFirstRuleWins ==
    (pc = "return" /\ call.fn = "extract_elements") =>
        LET patterns == ELEMENT_PATTERNS(call.extension)
        IN  /\ \A k \in 1..Len(ret) : Len(ret[k].name) >= MIN_ELEMENT_NAME_LENGTH
            /\ \A j, k \in 1..Len(ret) : j # k => ret[j].name # ret[k].name
            /\ \A k \in 1..Len(ret) :
                  LET rules == CapturingRules(patterns, call.file.content, ret[k].name)
                  IN  /\ rules # {}
                      /\ ret[k].type =
                             patterns[CHOOSE r \in rules : \A q \in rules : r <= q].type

\* C14 witness: a returned element whose name a later rule captured too,
\* with another kind and on an earlier line
C14_Witness ==
    /\ pc = "return"
    /\ call.fn = "extract_elements"
    /\ \E k \in 1..Len(ret) :
          LET patterns == ELEMENT_PATTERNS(call.extension)
              rules == CapturingRules(patterns, call.file.content, ret[k].name)
          IN  \E r, q \in rules :
                  /\ r < q
                  /\ patterns[r].type # patterns[q].type
                  /\ ret[k].type = patterns[r].type
                  /\ \E i \in 1..Len(call.file.content) :
                        /\ i < ret[k].line
                        /\ call.file.content[i].name = ret[k].name
                        /\ call.file.content[i].form \in patterns[q].forms

----------------------------------------------------------------------------
(* check_file_coverage as a single call *)

MaxElements == 3

\* a file size at which the rounded percentage reaches 60.0 below the threshold
BoundaryTotal == 402

\* the i-th generated element name: fn_000, fn_001, ...
ElemName(i) ==
    <<"f","n","_">> \o <<Digits[((i \div 100) % 10) + 1], Digits[((i \div 10) % 10) + 1],
                         Digits[(i % 10) + 1]>>

ElementsUpTo(t) == [i \in 1..t |-> [name |-> ElemName(i), type |-> "function", line |-> i]]

Path == [
    auth_js |-> <<"s","r","c","/","a","u","t","h",".","j","s">>,
    app_config_js |-> <<"a","p","p",".","c","o","n","f","i","g",".","j","s">>,
    my_file_js |-> <<"l","i","b","/","m","y","-","f","i","l","e",".","j","s">>,
    analysis_md |-> <<"a","n","a","l","y","s","i","s",".","m","d">>,
    notes_txt |-> <<"n","o","t","e","s",".","t","x","t">>,
    AuthTests_cs |-> <<"s","r","c","/","A","u","t","h","T","e","s","t","s",".","c","s">>,
    MyTest_tsx |-> <<"M","y","T","e","s","t",".","t","s","x">>,
    auth_test_ts |-> <<"a","u","t","h",".","t","e","s","t",".","t","s">>,
    auth_spec_jsx |-> <<"u","i","/","a","u","t","h",".","s","p","e","c",".","j","s","x">>,
    test_auth_py |-> <<"t","e","s","t","s","/","t","e","s","t","_","a","u","t","h",".","p","y">>,
    auth_test_py |-> <<"a","u","t","h","_","t","e","s","t",".","p","y">>,
    auth_test_go |-> <<"a","u","t","h","_","t","e","s","t",".","g","o">>,
    latest_news_py |-> <<"l","a","t","e","s","t","_","n","e","w","s",".","p","y">>,
    Contest_js |-> <<"C","o","n","t","e","s","t",".","j","s">>,
    login_js |-> <<"s","r","c","/","l","o","g","i","n",".","j","s">>,
    session_js |-> <<"s","r","c","/","s","e","s","s","i","o","n",".","j","s">>,
    helper_py |-> <<"l","i","b","/","h","e","l","p","e","r",".","p","y">>,
    report_sql |-> <<"l","i","b","/","r","e","p","o","r","t",".","s","q","l">>,
    helper_test_go |-> <<"l","i","b","/","h","e","l","p","e","r","_","t","e","s","t",".","g","o">> ]

CoveragePaths == {Path.auth_js, Path.app_config_js, Path.my_file_js}

\* a document line that names the file: "see <filename>"
MentionLine(filename) == <<"s","e","e"," ">> \o filename

\* a document line that names an element: "- <name>"
ElementLine(name) == <<"-"," ">> \o name

\* the (total, covered) pairs of the calls
CoverageCounts ==
    {<<t, c>> \in (0..MaxElements) \X (0..MaxElements) : c <= t}
        \cup {<<BoundaryTotal, c>> : c \in {(3 * BoundaryTotal) \div 5,
                                           (3 * BoundaryTotal) \div 5 + 1}}

\* the arguments of one call: a file, t elements, and one document that names
\* the first c of them and, with m, a file name
CoverageCall(tc, f, rd, doc, m) ==
    LET directories ==
            <<[path |-> "raw", isdir |-> TRUE,
               files |-> <<[fname |-> doc, readable |-> rd,
                            lines |-> [i \in 1..tc[2] |-> ElementLine(ElemName(i))]
                                         \o m]>>]>>
    IN  [fn |-> "check_file_coverage",
         source_file |-> [file |-> f, source_lines |-> 50],
         elements |-> ElementsUpTo(tc[1]),
         directories |-> directories,
         analysis_index |-> AnalysisIndex_build(directories)]

InitCoverage ==
    /\ pc = "call"
    /\ \E tc \in CoverageCounts, f \in CoveragePaths, rd \in BOOLEAN,
          doc \in {Path.analysis_md, Path.notes_txt},
          m \in SeqUpTo({MentionLine(basename(g)) : g \in CoveragePaths}, 1) :
         /\ tc[1] > MaxElements =>
                (f = Path.auth_js /\ rd /\ doc = Path.analysis_md /\ m = <<>>)
         /\ call = CoverageCall(tc, f, rd, doc, m)
    /\ ret = <<>>
    /\ NoLocals
    /\ NoHooks

CallCoverage ==
    /\ pc = "call"
    /\ call.fn = "check_file_coverage"
    /\ ret' = check_file_coverage(call.source_file, call.elements, call.analysis_index)
    /\ pc' = "return"
    /\ UNCHANGED <<call, locals, hookvars>>

NextCoverage == CallCoverage

SpecCoverage == InitCoverage /\ [][NextCoverage]_vars

Returned(fn) == pc = "return" /\ call.fn = fn

\* C4 (as stated): with method element_coverage, status is ADEQUATE if and
\* only if the coverage_pct placed in the result (rounded to one decimal)
\* is at least 60.
C4_AdequateIffRoundedPct ==
    (Returned("check_file_coverage") /\ ret.method = "element_coverage") =>
        (ret.status = "ADEQUATE" <=> ret.coverage_pct >= 10 * ADEQUATE_COVERAGE_PCT)

\* C4 (amended): with method element_coverage, status is ADEQUATE if and only
\* if the unrounded percentage covered/total*100 is at least 60; the rounded
\* coverage_pct of an ADEQUATE file is at least 60.0, and it lies in [0,100].
C4_AdequateIffUnroundedPct ==
    (Returned("check_file_coverage") /\ ret.method = "element_coverage") =>
        /\ ret.status = "ADEQUATE" <=>
               100 * ret.elements_covered >= 60 * ret.elements_total
        /\ ret.status = "ADEQUATE" => ret.coverage_pct >= 600
        /\ ret.coverage_pct \in 0..1000

\* C4 witness: a file below the threshold whose reported coverage_pct is 60.0
C4_Witness ==
    /\ Returned("check_file_coverage")
    /\ ret.method = "element_coverage"
    /\ ret.status = "SHALLOW"
    /\ ret.coverage_pct = 600

\* the bare filename string appears in a line of a document that build() reads
FilenameAppears(directories, filename) ==
    \E doc \in DocumentsRead(directories) :
        \E i \in 1..Len(doc.lines) : Contains(doc.lines[i], filename)

\* C5: for a file with zero extracted elements, the result is ADEQUATE, 100.0,
\* filename_fallback whenever the bare filename appears in an analysis
\* document, and MISSING, 0.0 when it appears in none.
C5_FilenameFallback ==
    (Returned("check_file_coverage") /\ call.elements = <<>>) =>
        IF FilenameAppears(call.directories, basename(call.source_file.file))
        THEN ret.status = "ADEQUATE" /\ ret.coverage_pct = 1000
             /\ ret.method = "filename_fallback"
        ELSE ret.status = "MISSING" /\ ret.coverage_pct = 0
             /\ ret.method = "filename_fallback"

\* C15: for a file with at least one element and less than 60% of them
\* covered, the status is SHALLOW when an element is covered; with no element
\* covered it is SHALLOW when the bare filename is mentioned in the analysis
\* and MISSING otherwise; MISSING with method element_coverage occurs only
\* with zero covered elements and a filename that is not mentioned.
C15_ShallowOrMissing ==
    (Returned("check_file_coverage") /\ call.elements # <<>>) =>
        LET mentioned ==
                FilenameAppears(call.directories, basename(call.source_file.file))
        IN  /\ 100 * ret.elements_covered < 60 * ret.elements_total =>
                  ret.status = IF ret.elements_covered > 0 THEN "SHALLOW"
                               ELSE IF mentioned THEN "SHALLOW"
                               ELSE "MISSING"
            /\ (ret.method = "element_coverage" /\ ret.status = "MISSING") =>
                  (ret.elements_covered = 0 /\ ~mentioned)

----------------------------------------------------------------------------
(* AnalysisIndex: build and is_element_covered as a single call *)

MaxDocLines == 2

\* the inputs of the call: the names asked for and the lines of the document
IndexInput == [
    names |-> {Name.validateToken, Name.ab, Name.api_users,
               <<"v","a","l","i","d","a","t","e">>,
               <<"v","a","l","i","d","a","t","e","t","o","k","e","n">>},
    lines |-> {<<"c","a","l","l","s"," ","v","a","l","i","d","a","t","e","T","o","k","e","n","(","a","b",")">>,
               <<"v","a","l","i","d","a","t","e","T","o","k","e","n","s"," ","o","f"," ","/","a","p","i","/","u","s","e","r","s">>,
               <<"9","v","a","l","i","d","a","t","e","T","o","k","e","n">>,
               <<"r","e","-","v","a","l","i","d","a","t","e"," ","i","t">>,
               <<"V","A","L","I","D","A","T","E","T","O","K","E","N">>} ]

InitIndex ==
    /\ pc = "call"
    /\ \E name \in IndexInput.names, isdir \in BOOLEAN, rd \in BOOLEAN,
          doc \in {Path.analysis_md, Path.notes_txt},
          lines \in SeqUpTo(IndexInput.lines, MaxDocLines) :
         call = [fn |-> "is_element_covered",
                 element_name |-> name,
                 directories |->
                     <<[path |-> "raw", isdir |-> isdir,
                        files |-> <<[fname |-> doc, readable |-> rd,
                                     lines |-> lines]>>],
                       [path |-> "details", isdir |-> FALSE, files |-> <<>>]>>]
    /\ ret = <<>>
    /\ NoLocals
    /\ NoHooks

CallIndex ==
    /\ pc = "call"
    /\ call.fn = "is_element_covered"
    /\ analysis_index' = AnalysisIndex_build(call.directories)
    /\ ret' = is_element_covered(analysis_index', call.element_name)
    /\ pc' = "return"
    /\ UNCHANGED <<call, sf_index, all_source_files, all_elements_by_file,
                   total_elements, coverage_counts, gaps, total_elements_covered,
                   shared_elements, triage, hookvars>>

SpecIndex == InitIndex /\ [][CallIndex]_vars

\* name stands in the line as a whole token: no word character touches it
\* on either side
WholeTokenIn(line, name) ==
    \E i \in 1..(Len(line) - Len(name) + 1) :
        /\ SubSeq(line, i, i + Len(name) - 1) = name
        /\ i > 1 => ~IsWordChar(line[i - 1])
        /\ i + Len(name) <= Len(line) => ~IsWordChar(line[i + Len(name)])

\* C17: is_element_covered(name) is true if and only if a readable .md
\* document of an existing directory holds name as a whole identifier token
\* (a letter or underscore, then letters, digits, underscores, 3+ characters
\* in all), matched exactly and case-sensitively.
C17_CoveredIffWholeToken ==
    Returned("is_element_covered") =>
        (ret <=>
            /\ Len(call.element_name) >= 3
            /\ IsIdentStart(call.element_name[1])
            /\ IsWord(call.element_name)
            /\ \E d \in 1..Len(call.directories) :
                  /\ call.directories[d].isdir
                  /\ \E f \in 1..Len(call.directories[d].files) :
                        LET file == call.directories[d].files[f]
                        IN  /\ EndsWith(file.fname, <<".","m","d">>)
                            /\ file.readable
                            /\ \E n \in 1..Len(file.lines) :
                                  WholeTokenIn(file.lines[n], call.element_name))

\* C17 witness: a name found covered by a document that also holds it inside
\* a longer identifier
C17_Witness ==
    /\ Returned("is_element_covered")
    /\ ret = TRUE
    /\ \E n \in 1..Len(call.directories[1].files[1].lines) :
          LET line == call.directories[1].files[1].lines[n]
          IN  /\ Contains(line, call.element_name)
              /\ ~WholeTokenIn(line, call.element_name)

----------------------------------------------------------------------------
(* classify_gap as a single call *)

MaxMissing == 6

ClassifyPaths == {Path.auth_js, Path.AuthTests_cs, Path.MyTest_tsx, Path.auth_test_ts,
                  Path.auth_spec_jsx, Path.test_auth_py, Path.auth_test_py,
                  Path.auth_test_go, Path.latest_news_py, Path.Contest_js}

\* line counts on both sides of the two size thresholds
LineCounts == {1, 200, 201, 500, 501}

InitClassify ==
    /\ pc = "call"
    /\ \E f \in ClassifyPaths, st \in {"MISSING", "SHALLOW", "ADEQUATE"},
          m \in 0..MaxMissing, n \in LineCounts :
         call = [fn |-> "classify_gap",
                 source_file |-> [file |-> f, source_lines |-> n],
                 status |-> st,
                 coverage_result |-> [elements_missing |-> [i \in 1..m |-> ElemName(i)]]]
    /\ ret = <<>>
    /\ NoLocals
    /\ NoHooks

CallClassify ==
    /\ pc = "call"
    /\ call.fn = "classify_gap"
    /\ ret' = classify_gap(call.source_file, call.status, call.coverage_result)
    /\ pc' = "return"
    /\ UNCHANGED <<call, locals, hookvars>>

NextClassify == CallClassify

SpecClassify == InitClassify /\ [][NextClassify]_vars

\* the test-naming conventions: *Test.cs / *Tests.cs (and .js, .ts, .tsx),
\* *.test.<js|ts|tsx|jsx>, *.spec.<js|ts|tsx|jsx>, test_*.py, *_test.py,
\* *_test.go
FollowsTestConvention(filename) ==
    \/ \E p \in {Lit.Test_cs, Lit.Tests_cs, Lit.Test_js, Lit.Tests_js,
                 Lit.Test_ts, Lit.Tests_ts, Lit.Test_tsx, Lit.Tests_tsx} :
          EndsWith(filename, p)
    \/ \E d \in {Lit.dot_test_dot, Lit.dot_spec_dot} :
          \E e \in {Lit.js, Lit.ts, Lit.tsx, Lit.jsx} : EndsWith(filename, d \o e)
    \/ StartsWith(filename, Lit.test_) /\ EndsWith(filename, Lit.dot_py)
    \/ EndsWith(filename, Lit._test_py)
    \/ EndsWith(filename, Lit._test_go)

\* C7: classify_gap returns TEST if and only if the bare filename follows a
\* recognized test-naming convention, for every status and coverage result.
C7_TestIffConvention ==
    Returned("classify_gap") =>
        (ret = "TEST" <=> FollowsTestConvention(basename(call.source_file.file)))

\* C8: for a file that is not a test file, the severity is the function of
\* status, missing-element count and source_lines given by the table.
C8_SeverityTable ==
    (Returned("classify_gap")
        /\ ~FollowsTestConvention(basename(call.source_file.file))) =>
        LET missing == Len(call.coverage_result.elements_missing)
            n == call.source_file.source_lines
        IN  /\ call.status = "MISSING" =>
                 ret = (IF n > 200 THEN "CRITICAL" ELSE "IMPORTANT")
            /\ call.status = "SHALLOW" =>
                 ret = (IF missing > 5 \/ n > 500 THEN "CRITICAL"
                        ELSE IF missing > 2 \/ n > 200 THEN "IMPORTANT"
                        ELSE "MINOR")

----------------------------------------------------------------------------
(* detect_shared_elements as a single call *)

MaxDefs == 2

\* the inputs of the call: defining files, element names and the sets of
\* files that the codebase index gives for a name
SharedInput == [
    files |-> {Path.auth_js, Path.login_js, Path.session_js},
    names |-> {<<"A","p","i">>, <<"t","o","k","e","n","2">>,
               Name.validateToken, Name.audit_log},
    referencing |-> {{}, {Path.auth_js, Path.login_js},
                     {Path.login_js, Path.session_js},
                     {Path.auth_js, Path.login_js, Path.session_js}} ]

InitShared ==
    /\ pc = "call"
    /\ \E defs \in SeqUpTo(SharedInput.files \X SharedInput.names, MaxDefs),
          refs \in [SharedInput.names -> SharedInput.referencing],
          hashseed \in HashSeeds :
         /\ \A j, k \in 1..Len(defs) : j # k => defs[j][1] # defs[k][1]
         /\ \A n \in SharedInput.names :
               (\A k \in 1..Len(defs) : defs[k][2] # n) => refs[n] = {}
         /\ call = [fn |-> "detect_shared_elements",
                    all_elements_by_file |->
                        [k \in 1..Len(defs) |->
                            [key |-> defs[k][1],
                             value |-> <<[name |-> defs[k][2], type |-> "function",
                                          line |-> 1]>>]],
                    codebase_index |->
                        [n \in {m \in SharedInput.names : refs[m] # {}} |-> refs[n]],
                    hashseed |-> hashseed]
    /\ ret = <<>>
    /\ NoLocals
    /\ NoHooks

CallShared ==
    /\ pc = "call"
    /\ call.fn = "detect_shared_elements"
    /\ ret' = detect_shared_elements(call.all_elements_by_file, call.codebase_index,
                                     call.hashseed)
    /\ pc' = "return"
    /\ UNCHANGED <<call, locals, hookvars>>

SpecShared == InitShared /\ [][CallShared]_vars

\* C12: every SharedElement detect_shared_elements emits has caller_count >=
\* SHARED_ELEMENT_MIN_CALLERS, caller_count equal to the length of callers,
\* callers sorted ascending without duplicates, and defined_in not among the
\* callers.
C12_SharedElementWellFormed ==
    (pc = "return" /\ call.fn = "detect_shared_elements") =>
        \A k \in 1..Len(ret) :
            LET se == ret[k]
            IN  /\ se.caller_count >= SHARED_ELEMENT_MIN_CALLERS
                /\ se.caller_count = Len(se.callers)
                /\ \A j \in 1..(Len(se.callers) - 1) :
                      StrLess(se.callers[j], se.callers[j + 1])
                /\ \A j \in 1..Len(se.callers) : se.callers[j] # se.defined_in

\* C12 witness: an element emitted with two callers out of three referencing
\* files, its own file being one of them, in a process whose sets yield
\* their members in descending order
C12_Witness ==
    /\ pc = "return"
    /\ call.fn = "detect_shared_elements"
    /\ call.hashseed = 1
    /\ \E k \in 1..Len(ret) :
          /\ ret[k].caller_count = 2
          /\ Cardinality(call.codebase_index[ret[k].name]) = 3

\* C13: detect_shared_elements emits no SharedElement whose name is shorter
\* than 4 characters or entirely lower-case (no upper-case letter, at least
\* one lower-case letter) without an underscore.
C13_NoShortOrLowercaseName ==
    (pc = "return" /\ call.fn = "detect_shared_elements") =>
        \A k \in 1..Len(ret) :
            LET name == ret[k].name
            IN  /\ Len(name) >= 4
                /\ \/ \E i \in 1..Len(name) : name[i] \in UpperSet \cup {"_"}
                   \/ \A i \in 1..Len(name) : name[i] \notin LowerSet

\* C13 witness: a 3-character name and a lower-case name, each referenced
\* from two files other than the defining one, and neither is emitted
C13_Witness ==
    /\ pc = "return"
    /\ call.fn = "detect_shared_elements"
    /\ \E j, k \in 1..Len(call.all_elements_by_file) :
          LET short == call.all_elements_by_file[j]
              lowercase == call.all_elements_by_file[k]
              OtherFiles(item) ==
                  call.codebase_index[item.value[1].name] \ {item.key}
          IN  /\ Len(short.value[1].name) = 3
              /\ Len(lowercase.value[1].name) > 3
              /\ \A i \in 1..Len(lowercase.value[1].name) :
                    lowercase.value[1].name[i] \notin UpperSet \cup {"_"}
              /\ short.value[1].name \in DOMAIN call.codebase_index
              /\ lowercase.value[1].name \in DOMAIN call.codebase_index
              /\ Cardinality(OtherFiles(short)) >= 2
              /\ Cardinality(OtherFiles(lowercase)) >= 2
    /\ ret = <<>>

----------------------------------------------------------------------------
(* run_audit *)

MaxFiles == 3

\* the repository paths of the manifests; nothing exists at Repo.gone
Repo == [alpha |-> <<"/","w","o","r","k","/","a","l","p","h","a">>, beta |-> <<"/","w","o","r","k","/","b","e","t","a">>, gone |-> <<"/","w","o","r","k","/","g","o","n","e">>]

File(file, content, pad) ==
    [file |-> file, content |-> content, pad |-> pad, readable |-> TRUE]

Line(form, name) == [form |-> form, name |-> name]

\* the files that can be under Repo.alpha
CatalogAlpha == {
    File(Path.auth_js, <<Line("function", Name.validateToken)>>, 300),
    File(Path.login_js, <<Line("ref", Name.validateToken),
                          Line("function", Name.doLogin)>>, 0),
    File(Path.session_js, <<Line("ref", Name.validateToken)>>, 0) }

\* the files that can be under Repo.beta
CatalogBeta == {
    File(Path.auth_js, <<Line("class", Name.AuthService),
                         Line("method", Name.refreshToken),
                         Line("ref", Name.validateToken)>>, 0),
    File(Path.helper_py, <<Line("def", Name.helperOne),
                           Line("ref", Name.validateToken),
                           Line("def", Name.helperTwo)>>, 400),
    File(Path.report_sql, <<Line("sql_table", Name.audit_log)>>, 20),
    File(Path.helper_test_go, <<Line("go_func", Name.TestHelper)>>, 0) }

\* the directory of a relative path: what stands before its last "/"
dirname(path) ==
    LET slashes == {k \in 1..Len(path) : path[k] = "/"}
    IN  IF slashes = {} THEN <<>>
        ELSE SubSeq(path, 1, (CHOOSE k \in slashes : \A j \in slashes : j <= k) - 1)

\* the listings os.walk can give of a tree made of catalog files: each file
\* once, the files of one directory together
Trees(catalog) ==
    {t \in SeqUpTo(catalog, MaxFiles) :
        /\ \A j, k \in 1..Len(t) : j # k => t[j].file # t[k].file
        /\ \A j, k \in 1..Len(t) : \A m \in j..k :
              dirname(t[j].file) = dirname(t[k].file)
                  => dirname(t[m].file) = dirname(t[j].file)}

Plans == {
    [repos |-> <<[name |-> "alpha", path |-> Repo.alpha]>>],
    [repos |-> <<[name |-> "alpha", path |-> Repo.alpha],
                 [name |-> "beta", path |-> Repo.beta]>>],
    [repos |-> <<[name |-> "beta", path |-> Repo.beta],
                 [name |-> "alpha", path |-> Repo.alpha]>>],
    [repos |-> <<[name |-> "alpha", path |-> Repo.alpha],
                 [name |-> "gone", path |-> Repo.gone],
                 [name |-> "beta", path |-> Repo.beta]>>,
     exclude_patterns |-> <<<<"s","e","s","s","i","o","n">>>>] }

DocLine == [
    raw |-> <<"v","a","l","i","d","a","t","e","T","o","k","e","n"," ","c","h","e","c","k","s"," ","t","h","e"," ","t","o","k","e","n",","," ","s","e","e"," ","l","o","g","i","n",".","j","s">>,
    details |-> <<"A","u","t","h","S","e","r","v","i","c","e",".","r","e","f","r","e","s","h","T","o","k","e","n"," ","w","r","a","p","s"," ","h","e","l","p","e","r","O","n","e">> ]

\* the arguments of run_audit and the file system it runs on
AuditCall(plan, ta, tb, raw_lines, details_lines) ==
    LET pathsA == {join(Repo.alpha, ta[k].file) : k \in 1..Len(ta)}
        pathsB == {join(Repo.beta, tb[k].file) : k \in 1..Len(tb)}
    IN  [fn |-> "run_audit",
         plan |-> plan,
         raw_dir |-> [path |-> "raw", isdir |-> TRUE,
                      files |-> <<[fname |-> Path.analysis_md, readable |-> TRUE,
                                   lines |-> raw_lines]>>],
         details_dir |-> [path |-> "details", isdir |-> TRUE,
                          files |-> <<[fname |-> Path.analysis_md, readable |-> TRUE,
                                       lines |-> details_lines]>>],
         extra_exclude_patterns |-> <<>>,
         walk |-> (Repo.alpha :> [k \in 1..Len(ta) |-> ta[k].file])
                     @@ (Repo.beta :> [k \in 1..Len(tb) |-> tb[k].file]),
         disk |-> [q \in pathsA \cup pathsB |->
                     IF q \in pathsA
                     THEN ta[CHOOSE k \in 1..Len(ta) : join(Repo.alpha, ta[k].file) = q]
                     ELSE tb[CHOOSE k \in 1..Len(tb) : join(Repo.beta, tb[k].file) = q]]]

Init ==
    /\ pc = "enumerate"
    /\ \E plan \in Plans, ta \in Trees(CatalogAlpha), tb \in Trees(CatalogBeta),
          raw_lines \in SeqUpTo({DocLine.raw}, 1),
          details_lines \in SeqUpTo({DocLine.details}, 1) :
         /\ Len(ta) + Len(tb) <= MaxFiles
         /\ call = AuditCall(plan, ta, tb, raw_lines, details_lines)
    /\ ret = <<>>
    /\ NoLocals
    /\ NoHooks

\* Phase 1: enumerate the source files of every repo of the plan
EnumerateSourceFiles ==
    /\ pc = "enumerate"
    /\ LET exclude_patterns ==
               call.extra_exclude_patterns \o
                   (IF "exclude_patterns" \in DOMAIN call.plan
                    THEN call.plan.exclude_patterns ELSE <<>>)
       IN  all_source_files' = EnumerateRepos(call, exclude_patterns, 1)
    /\ sf_index' = 1
    /\ pc' = "extract"
    /\ UNCHANGED <<call, ret, all_elements_by_file, total_elements, analysis_index,
                   coverage_counts, gaps, total_elements_covered, shared_elements,
                   triage, hookvars>>

\* Phase 2, one iteration: extract the elements of one source file
ExtractElements ==
    /\ pc = "extract"
    /\ sf_index <= Len(all_source_files)
    /\ LET sf == all_source_files[sf_index]
           elements == extract_elements(call.disk[sf.abs_path], sf.extension)
       IN  /\ all_elements_by_file' = DictSet(all_elements_by_file, sf.file, elements)
           /\ total_elements' = total_elements + Len(elements)
    /\ sf_index' = sf_index + 1
    /\ UNCHANGED <<pc, call, ret, all_source_files, analysis_index, coverage_counts,
                   gaps, total_elements_covered, shared_elements, triage, hookvars>>

\* Phase 3: build the analysis index
BuildAnalysisIndex ==
    /\ pc = "extract"
    /\ sf_index > Len(all_source_files)
    /\ analysis_index' = AnalysisIndex_build(<<call.raw_dir, call.details_dir>>)
    /\ sf_index' = 1
    /\ pc' = "coverage"
    /\ UNCHANGED <<call, ret, all_source_files, all_elements_by_file, total_elements,
                   coverage_counts, gaps, total_elements_covered, shared_elements,
                   triage, hookvars>>

\* CheckCoverage that also takes an element for analysed when another source
\* file of the run holds its name
CheckCoverage_counting_references ==
    /\ pc = "coverage"
    /\ sf_index <= Len(all_source_files)
    /\ LET sf == all_source_files[sf_index]
           elements == DictGet(all_elements_by_file, sf.file, <<>>)
           others == SelectSeq(all_source_files, LAMBDA f : f.abs_path # sf.abs_path)
           referenced == build_codebase_identifier_index(others, call.disk)
           result == check_file_coverage(
                         sf, elements,
                         [analysis_index EXCEPT !._index = @ @@ referenced])
       IN  /\ total_elements_covered' = total_elements_covered + result.elements_covered
           /\ IF IsGap(result)
              THEN /\ coverage_counts' = CountStatus(coverage_counts, result.status)
                   /\ gaps' = Append(gaps, Gap(sf, result))
              ELSE /\ coverage_counts' = CountStatus(coverage_counts, "ADEQUATE")
                   /\ gaps' = gaps
    /\ sf_index' = sf_index + 1
    /\ UNCHANGED <<pc, call, ret, all_source_files, all_elements_by_file,
                   total_elements, analysis_index, shared_elements, triage, hookvars>>

\* Phase 4, one iteration: check the coverage of one source file
CheckCoverage ==
    /\ pc = "coverage"
    /\ sf_index <= Len(all_source_files)
    /\ LET sf == all_source_files[sf_index]
           elements == DictGet(all_elements_by_file, sf.file, <<>>)
           result == check_file_coverage(sf, elements, analysis_index)
       IN  /\ total_elements_covered' = total_elements_covered + result.elements_covered
           /\ IF IsGap(result)
              THEN /\ coverage_counts' = CountStatus(coverage_counts, result.status)
                   /\ gaps' = Append(gaps, Gap(sf, result))
              ELSE /\ coverage_counts' = CountStatus(coverage_counts, "ADEQUATE")
                   /\ gaps' = gaps
    /\ sf_index' = sf_index + 1
    /\ UNCHANGED <<pc, call, ret, all_source_files, all_elements_by_file,
                   total_elements, analysis_index, shared_elements, triage, hookvars>>

\* gaps.sort(...)
SortGaps ==
    /\ pc = "coverage"
    /\ sf_index > Len(all_source_files)
    /\ gaps' = sort_gaps(gaps)
    /\ pc' = "shared"
    /\ UNCHANGED <<call, ret, sf_index, all_source_files, all_elements_by_file,
                   total_elements, analysis_index, coverage_counts,
                   total_elements_covered, shared_elements, triage, hookvars>>

\* Phase 5: detect shared elements
DetectSharedElements ==
    /\ pc = "shared"
    /\ LET codebase_index ==
               build_codebase_identifier_index(all_source_files, call.disk)
       IN  \E hashseed \in HashSeeds :
               shared_elements' =
                   detect_shared_elements(all_elements_by_file, codebase_index,
                                          hashseed)
    /\ pc' = "triage"
    /\ UNCHANGED <<call, ret, sf_index, all_source_files, all_elements_by_file,
                   total_elements, analysis_index, coverage_counts, gaps,
                   total_elements_covered, triage, hookvars>>

\* Phase 6: build the triage summary
BuildTriage ==
    /\ pc = "triage"
    /\ triage' = build_triage(gaps)
    /\ pc' = "report"
    /\ UNCHANGED <<call, ret, sf_index, all_source_files, all_elements_by_file,
                   total_elements, analysis_index, coverage_counts, gaps,
                   total_elements_covered, shared_elements, hookvars>>

\* the result of run_audit
Report ==
    /\ pc = "report"
    /\ ret' = [total_source_files |-> Len(all_source_files),
               total_source_lines |->
                   Sum([k \in 1..Len(all_source_files) |->
                           all_source_files[k].source_lines]),
               total_elements_extracted |-> total_elements,
               total_elements_covered |-> total_elements_covered,
               element_coverage_pct |->
                   IF total_elements > 0
                   THEN round1(total_elements_covered, total_elements) ELSE 1000,
               coverage |-> coverage_counts,
               triage |-> triage,
               gaps |-> gaps,
               shared_elements |-> shared_elements,
               shared_element_count |-> Len(shared_elements)]
    /\ pc' = "done"
    /\ UNCHANGED <<call, locals, hookvars>>

\* main that exits with 0 whatever the gaps
main_exit_zero ==
    /\ pc = "done"
    /\ call.fn = "run_audit"
    /\ ret' = [result |-> ret, exit_code |-> 0]
    /\ pc' = "exited"
    /\ UNCHANGED <<call, locals, hookvars>>

\* main() once run_audit has returned: the report is written and the
\* process exits with sys.exit(0 if gap_count == 0 else 1)
main ==
    /\ pc = "done"
    /\ call.fn = "run_audit"
    /\ LET gap_count == Len(ret.gaps)
       IN  ret' = [result |-> ret, exit_code |-> IF gap_count = 0 THEN 0 ELSE 1]
    /\ pc' = "exited"
    /\ UNCHANGED <<call, locals, hookvars>>

Next ==
    \/ EnumerateSourceFiles
    \/ ExtractElements
    \/ BuildAnalysisIndex
    \/ CheckCoverage
    \/ SortGaps
    \/ DetectSharedElements
    \/ BuildTriage
    \/ Report
    \/ main

Spec == Init /\ [][Next]_vars

Done == pc = "done" /\ call.fn = "run_audit"

\* the elements of a source file of the run, extracted from its own content
OwnElements(sf) == extract_elements(call.disk[sf.abs_path], sf.extension)

\* the identifier tokens in the content of a source file of the run
OwnTokens(sf) ==
    UNION {identifier_re(Render(call.disk[sf.abs_path].content[n])) :
              n \in 1..Len(call.disk[sf.abs_path].content)}

\* C1: in the report every coverage percentage lies in [0,100]: each gap's
\* coverage_pct and the overall element_coverage_pct; total_elements_covered
\* never exceeds total_elements_extracted.
C1_PercentagesInRange ==
    Done =>
        /\ \A k \in 1..Len(ret.gaps) : ret.gaps[k].coverage_pct \in 0..1000
        /\ ret.element_coverage_pct \in 0..1000
        /\ ret.total_elements_covered <= ret.total_elements_extracted

\* C2: the coverage result of every file is computed from that file's own
\* extracted elements: each missing name is a name extracted from that file,
\* and len(elements_missing) + elements_covered = elements_total = the number
\* of elements extracted from it.
C2_ResultFromOwnElements ==
    Done =>
        \A k \in 1..Len(ret.gaps) : \A f \in 1..Len(all_source_files) :
            LET g == ret.gaps[k]
                sf == all_source_files[f]
                own == OwnElements(sf)
            IN  (g.file = sf.file /\ g.repo = sf.repo_name) =>
                    /\ \A m \in 1..Len(g.elements_missing) :
                          \E e \in 1..Len(own) : own[e].name = g.elements_missing[m]
                    /\ Len(g.elements_missing) + g.elements_covered = g.elements_total
                    /\ g.elements_total = Len(own)

\* C6: an element E extracted from a source file F, with a name of 4+
\* characters that is not all-lowercase-without-underscore, whose name is an
\* identifier token of at least 2 source files other than F, has an entry in
\* shared_elements with name E, defined_in F, callers exactly those other
\* files, sorted, and caller_count their number.
C6_SharedElementEmitted ==
    Done =>
        \A f \in 1..Len(all_source_files) :
            LET sf == all_source_files[f]
                own == OwnElements(sf)
            IN  \A e \in 1..Len(own) :
                    LET name == own[e].name
                        others == {g \in 1..Len(all_source_files) \ {f} :
                                      name \in OwnTokens(all_source_files[g])}
                    IN  (/\ Len(name) >= 4
                         /\ ~(islower(name) /\ ~Contains(name, <<"_">>))
                         /\ Cardinality(others) >= 2) =>
                            \E k \in 1..Len(ret.shared_elements) :
                                LET se == ret.shared_elements[k]
                                IN  /\ se.name = name
                                    /\ se.defined_in = sf.file
                                    /\ se.callers = sorted(SetIteration(
                                           {all_source_files[g].file : g \in others}, 0))
                                    /\ se.caller_count = Cardinality(others)

\* C9: the report holds exactly one Gap per enumerated source file whose
\* status is not ADEQUATE and none for an ADEQUATE file; adequate + shallow +
\* missing = total_source_files and len(gaps) = shallow + missing.
C9_OneGapPerInadequateFile ==
    Done =>
        /\ \A f \in 1..Len(all_source_files) :
              LET sf == all_source_files[f]
                  result == check_file_coverage(sf,
                                DictGet(all_elements_by_file, sf.file, <<>>),
                                analysis_index)
                  of == {k \in 1..Len(ret.gaps) :
                            ret.gaps[k].file = sf.file /\ ret.gaps[k].repo = sf.repo_name}
              IN  Cardinality(of) = IF result.status = "ADEQUATE" THEN 0 ELSE 1
        /\ ret.coverage.adequate + ret.coverage.shallow + ret.coverage.missing
               = ret.total_source_files
        /\ Len(ret.gaps) = ret.coverage.shallow + ret.coverage.missing

\* C9 witness: a finished run with an ADEQUATE file, a SHALLOW one and a
\* MISSING one
C9_Witness ==
    /\ Done
    /\ ret.coverage.adequate > 0
    /\ ret.coverage.shallow > 0
    /\ ret.coverage.missing > 0

\* the sort key of the claim: rank of the severity, then missing count and
\* line count descending
RankKey(g) ==
    <<CASE g.severity = "CRITICAL" -> 0 [] g.severity = "IMPORTANT" -> 1
        [] g.severity = "MINOR" -> 2 [] g.severity = "TEST" -> 3,
      0 - Len(g.elements_missing), 0 - g.source_lines>>

\* C10: the gaps of the report are ordered by severity rank CRITICAL <
\* IMPORTANT < MINOR < TEST, then by descending number of missing elements,
\* then by descending source_lines: the key of each gap is <= the key of the
\* next one.
C10_GapsSorted ==
    Done =>
        \A k \in 1..(Len(ret.gaps) - 1) :
            ~TupleLess(RankKey(ret.gaps[k + 1]), RankKey(ret.gaps[k]))

\* the place of a gap's file in the enumeration
EnumeratedAt(g) ==
    CHOOSE f \in 1..Len(all_source_files) :
        all_source_files[f].file = g.file /\ all_source_files[f].repo_name = g.repo

\* C10 witness: a sorted report in which a gap stands before a gap whose file
\* was enumerated earlier, and two neighbours tie on severity and missing
\* count and are ordered by their line counts
C10_Witness ==
    /\ Done
    /\ \E j, k \in 1..Len(ret.gaps) :
          j < k /\ EnumeratedAt(ret.gaps[j]) > EnumeratedAt(ret.gaps[k])
    /\ \E k \in 1..(Len(ret.gaps) - 1) :
          /\ ret.gaps[k].severity = ret.gaps[k + 1].severity
          /\ Len(ret.gaps[k].elements_missing) = Len(ret.gaps[k + 1].elements_missing)
          /\ ret.gaps[k].source_lines > ret.gaps[k + 1].source_lines

\* the severities a gap can have
Severities == {"CRITICAL", "IMPORTANT", "MINOR", "TEST"}

\* C18: the triage summary aggregates the gaps exactly: for each severity
\* that some gap has, count is the number of gaps of that severity,
\* total_lines the sum of their source_lines and total_missing_elements the
\* sum of their numbers of missing elements; a severity without gap has no
\* entry, and the counts of all severities sum to len(gaps).
C18_TriageAggregatesGaps ==
    Done =>
        LET g == ret.gaps
            Has(k, sev) == g[k].severity = sev
            Count(sev) ==
                IF sev \in DOMAIN ret.triage THEN ret.triage[sev].count ELSE 0
        IN  /\ DOMAIN ret.triage \subseteq Severities
            /\ \A sev \in Severities :
                  IF \E k \in 1..Len(g) : Has(k, sev)
                  THEN /\ sev \in DOMAIN ret.triage
                       /\ ret.triage[sev].count =
                              Cardinality({k \in 1..Len(g) : Has(k, sev)})
                       /\ ret.triage[sev].total_lines =
                              Sum([k \in 1..Len(g) |->
                                      IF Has(k, sev) THEN g[k].source_lines ELSE 0])
                       /\ ret.triage[sev].total_missing_elements =
                              Sum([k \in 1..Len(g) |->
                                      IF Has(k, sev) THEN Len(g[k].elements_missing)
                                      ELSE 0])
                  ELSE sev \notin DOMAIN ret.triage
            /\ Count("CRITICAL") + Count("IMPORTANT") + Count("MINOR") + Count("TEST")
                   = Len(g)

\* C18 witness: a report with gaps of two severities, two of them of one
\* severity
C18_Witness ==
    /\ Done
    /\ Cardinality(DOMAIN ret.triage) >= 2
    /\ \E sev \in DOMAIN ret.triage : ret.triage[sev].count >= 2

\* C19: when a run of the audit completes, the exit code of the process is 0
\* if the gap list is empty and 1 if it holds at least one gap.
C19_ExitCode ==
    pc = "exited" =>
        /\ ret.exit_code \in {0, 1}
        /\ ret.exit_code = 0 <=> ret.result.gaps = <<>>
        /\ ret.exit_code = 1 <=> coverage_counts.shallow + coverage_counts.missing > 0

\* C19 witness: an audit of several files without any gap, exited
C19_Witness ==
    /\ pc = "exited"
    /\ ret.exit_code = 0
    /\ ret.result.total_source_files >= 2

\* the repos of the plan, by number, whose path is no existing directory
MissingRepos == {r \in 1..Len(call.plan.repos) :
                    call.plan.repos[r].path \notin DOMAIN call.walk}

\* C20: a repository of the manifest whose path is no existing directory is
\* skipped and the run goes on: it contributes no file and no line, and every
\* other repository, before or after it, is enumerated and audited: the
\* files of the report are those of the existing repositories, in order.
C20_MissingRepoSkipped ==
    Done =>
        LET repos == call.plan.repos
            excl == call.extra_exclude_patterns \o
                       (IF "exclude_patterns" \in DOMAIN call.plan
                        THEN call.plan.exclude_patterns ELSE <<>>)
            FilesOf(r) ==
                IF r \in MissingRepos THEN <<>>
                ELSE enumerate_source_files(repos[r].path, excl,
                                            call.walk[repos[r].path], call.disk, 1)
            Audited(r) == SelectSeq(all_source_files,
                                    LAMBDA sf : sf.repo_name = repos[r].name)
        IN  /\ \A r \in 1..Len(repos) :
                  /\ Len(Audited(r)) = Len(FilesOf(r))
                  /\ \A k \in 1..Len(FilesOf(r)) :
                        /\ Audited(r)[k].abs_path = FilesOf(r)[k].abs_path
                        /\ Audited(r)[k].source_lines = FilesOf(r)[k].source_lines
            /\ ret.total_source_files =
                   Sum([r \in 1..Len(repos) |-> Len(FilesOf(r))])
            /\ ret.total_source_lines =
                   Sum([r \in 1..Len(repos) |->
                           Sum([k \in 1..Len(FilesOf(r)) |-> FilesOf(r)[k].source_lines])])
            /\ ret.coverage.adequate + Len(ret.gaps) = ret.total_source_files

\* C20 witness: a finished run whose manifest names a missing repository
\* between two repositories that both have files in the report
C20_Witness ==
    /\ Done
    /\ \E q, r, t \in 1..Len(call.plan.repos) :
          /\ q < r /\ r < t
          /\ r \in MissingRepos
          /\ \E k \in 1..Len(all_source_files) :
                all_source_files[k].repo_name = call.plan.repos[q].name
          /\ \E k \in 1..Len(all_source_files) :
                all_source_files[k].repo_name = call.plan.repos[t].name

----------------------------------------------------------------------------
(* run_audit run a second time by the same caller *)

\* the arguments and file system a second run can find after a run on c:
\* the same, the analysis documents rewritten, or the references of some
\* source files changed into references to helperOne
SecondCalls(c) ==
    LET Rereferenced(file) ==
            [file EXCEPT !.content =
                [k \in 1..Len(file.content) |->
                    IF file.content[k].form = "ref"
                    THEN Line("ref", Name.helperOne)
                    ELSE file.content[k]]]
    IN  {c}
        \cup {[c EXCEPT !.raw_dir.files[1].lines = raw_lines,
                        !.details_dir.files[1].lines = details_lines] :
                 raw_lines \in SeqUpTo({DocLine.raw}, 1),
                 details_lines \in SeqUpTo({DocLine.details}, 1)}
        \cup {[c EXCEPT !.disk = [q \in DOMAIN c.disk |->
                                     IF q \in edited THEN Rereferenced(c.disk[q])
                                     ELSE c.disk[q]]] :
                 edited \in SUBSET DOMAIN c.disk}

InitAgain ==
    /\ pc = "enumerate"
    /\ \E ta \in Trees(CatalogAlpha), tb \in Trees(CatalogBeta),
          raw_lines \in SeqUpTo({DocLine.raw}, 1) :
         /\ Len(ta) + Len(tb) <= MaxFiles
         /\ call = AuditCall([repos |-> <<[name |-> "alpha", path |-> Repo.alpha],
                                          [name |-> "beta", path |-> Repo.beta]>>],
                             ta, tb, raw_lines, <<DocLine.details>>)
    /\ ret = <<>>
    /\ NoLocals
    /\ NoHooks

\* run_audit called again once the first call has returned; call.first
\* keeps the first call and its report
RunAgain ==
    /\ pc = "done"
    /\ "first" \notin DOMAIN call
    /\ \E again \in SecondCalls(call) :
          call' = [first |-> [call |-> call, ret |-> ret]] @@ again
    /\ ret' = <<>>
    /\ pc' = "enumerate"
    /\ sf_index' = 1
    /\ all_source_files' = <<>>
    /\ all_elements_by_file' = <<>>
    /\ total_elements' = 0
    /\ analysis_index' = [_index |-> <<>>, _filename_index |-> <<>>, _built |-> FALSE]
    /\ coverage_counts' = [adequate |-> 0, shallow |-> 0, missing |-> 0]
    /\ gaps' = <<>>
    /\ total_elements_covered' = 0
    /\ shared_elements' = <<>>
    /\ triage' = <<>>
    /\ UNCHANGED hookvars

NextAgain ==
    \/ Next
    \/ RunAgain

SpecAgain == InitAgain /\ [][NextAgain]_vars

\* the second run of run_audit has returned
DoneAgain == Done /\ "first" \in DOMAIN call

\* the second run has the plan, the trees and the file contents of the first
SameSources ==
    /\ call.plan = call.first.call.plan
    /\ call.extra_exclude_patterns = call.first.call.extra_exclude_patterns
    /\ call.walk = call.first.call.walk
    /\ call.disk = call.first.call.disk

\* the second run has the analysis documents of the first
SameDocuments ==
    /\ call.raw_dir = call.first.call.raw_dir
    /\ call.details_dir = call.first.call.details_dir

\* C11: two runs of run_audit on the same repositories and the same analysis
\* documents report the same sequence of gaps and the same sequence of
\* shared_elements: the same entries in the same order.
C11_SameInputsSameLists ==
    (DoneAgain /\ SameSources /\ SameDocuments) =>
        /\ ret.gaps = call.first.ret.gaps
        /\ ret.shared_elements = call.first.ret.shared_elements

\* C11 witness: a second run on unchanged inputs has returned several gaps
\* and a shared element with several callers
C11_Witness ==
    /\ DoneAgain
    /\ SameSources
    /\ SameDocuments
    /\ Len(ret.gaps) >= 2
    /\ \E k \in 1..Len(ret.shared_elements) : ret.shared_elements[k].caller_count >= 2

\* the second run has the plan and the trees of the first, and every source
\* file has the line count and the extracted elements it had
SameElementsPerFile ==
    /\ call.plan = call.first.call.plan
    /\ call.extra_exclude_patterns = call.first.call.extra_exclude_patterns
    /\ call.walk = call.first.call.walk
    /\ \A q \in DOMAIN call.disk :
          LET now == call.disk[q]
              before == call.first.call.disk[q]
          IN  /\ now.file = before.file
              /\ now.readable = before.readable
              /\ now.pad = before.pad
              /\ Len(now.content) = Len(before.content)
    /\ \A k \in 1..Len(all_source_files) :
          LET sf == all_source_files[k]
          IN  extract_elements(call.disk[sf.abs_path], sf.extension)
                  = extract_elements(call.first.call.disk[sf.abs_path], sf.extension)

\* C16: the two reverse indexes do not interfere.  Two runs with the same
\* extracted elements per file and the same analysis documents, whatever the
\* identifier tokens of the source files, report the same coverage: the same
\* gaps with their status, severity and missing elements, the same status
\* counts and the same number of covered elements.  Two runs that differ
\* only in the analysis documents report the same shared_elements.
C16_IndexesDoNotInterfere ==
    DoneAgain =>
        /\ (SameElementsPerFile /\ SameDocuments) =>
              /\ ret.gaps = call.first.ret.gaps
              /\ ret.coverage = call.first.ret.coverage
              /\ ret.triage = call.first.ret.triage
              /\ ret.total_elements_covered = call.first.ret.total_elements_covered
        /\ SameSources =>
              ret.shared_elements = call.first.ret.shared_elements

\* C16 witness: the second run has returned a gap with a missing element
\* whose name another source file held in the first run and no source file
\* but its own holds now, the analysis documents being the same
C16_Witness ==
    /\ DoneAgain
    /\ SameElementsPerFile
    /\ SameDocuments
    /\ \E k \in 1..Len(ret.gaps) :
          \E name \in {ret.gaps[k].elements_missing[j] :
                          j \in 1..Len(ret.gaps[k].elements_missing)} :
             LET before == build_codebase_identifier_index(all_source_files,
                                                           call.first.call.disk)
                 now == build_codebase_identifier_index(all_source_files, call.disk)
             IN  /\ Cardinality(before[name]) >= 2
                 /\ Cardinality(now[name]) = 1

----------------------------------------------------------------------------
(* extract_elements on a file it has no rules for or cannot read *)

\* C21: extract_elements returns an empty list, and does return, for an
\* extension without rule set and for a file that cannot be opened or read;
\* check_file_coverage then takes the filename-fallback path for the file,
\* whatever the analysis documents hold, the names of its lines included.
C21_NoRulesOrUnreadableIsEmpty ==
    (/\ Returned("extract_elements")
     /\ ELEMENT_PATTERNS(call.extension) = <<>> \/ ~call.file.readable) =>
        /\ ret = <<>>
        /\ \A m \in SeqUpTo({MentionLine(basename(Path.auth_js))}, 1) :
              LET named == [i \in 1..Len(call.file.content) |->
                               ElementLine(call.file.content[i].name)]
                  directories ==
                      <<[path |-> "raw", isdir |-> TRUE,
                         files |-> <<[fname |-> Path.analysis_md, readable |-> TRUE,
                                      lines |-> named \o m]>>]>>
                  result == check_file_coverage(
                                [file |-> Path.auth_js, source_lines |-> 50], ret,
                                AnalysisIndex_build(directories))
              IN  /\ result.method = "filename_fallback"
                  /\ result.elements_total = 0
                  /\ result.status = IF m = <<>> THEN "MISSING" ELSE "ADEQUATE"

\* C21 witness: an unreadable file of an extension with rules whose content
\* declares an element, and nothing is returned for it
C21_Witness ==
    /\ Returned("extract_elements")
    /\ ~call.file.readable
    /\ extract_elements([call.file EXCEPT !.readable = TRUE], call.extension) # <<>>
    /\ ret = <<>>

----------------------------------------------------------------------------
(* Context watchdog (scripts/context-watchdog.py): one hook process per    *)
(* hook event, the per-session state file they share                       *)

WARN_TOOL_CALLS == 30
CRITICAL_TOOL_CALLS == 50
BLOCK_TOOL_CALLS == 75

WARN_TRANSCRIPT_KB == 300
CRITICAL_TRANSCRIPT_KB == 500
BLOCK_TRANSCRIPT_KB == 800

BLOCKED_TOOLS == {"TaskCreate", "TeamCreate", "SendMessage"}

WARN_EVERY_N == 5
CRITICAL_EVERY_N == 2
BLOCK_EVERY_N == 1

\* a state file: kind is "missing", "corrupt" (no JSON document, an empty
\* file included) or "json"; value is the JSON object of a "json" file, by
\* key; writable is whether open(path, "w") succeeds
StateFile(kind, value, writable) ==
    [kind |-> kind, value |-> value, writable |-> writable]

\* read_state(session_id): file is what get_state_path(session_id) holds
read_state(file) ==
    IF file.kind \in {"missing", "corrupt"}
    THEN [tool_calls |-> 0, warnings_given |-> 0]
    ELSE file.value

\* get_transcript_size_kb(transcript_path) in units of 1/1024 KB, that is in
\* bytes: transcript is the size of the file, -1 when there is no path or no
\* file at the path
get_transcript_size_kb(transcript) ==
    IF transcript < 0 THEN 0 ELSE transcript

\* classify_risk(tool_calls, transcript_kb), transcript_kb in bytes
classify_risk(tool_calls, transcript_kb) ==
    IF tool_calls >= BLOCK_TOOL_CALLS \/ transcript_kb >= 1024 * BLOCK_TRANSCRIPT_KB
    THEN "BLOCK"
    ELSE IF \/ tool_calls >= CRITICAL_TOOL_CALLS
            \/ transcript_kb >= 1024 * CRITICAL_TRANSCRIPT_KB
    THEN "CRITICAL"
    ELSE IF tool_calls >= WARN_TOOL_CALLS \/ transcript_kb >= 1024 * WARN_TRANSCRIPT_KB
    THEN "WARN"
    ELSE "OK"

should_emit_warning(state, risk) ==
    LET count == state.warnings_given
    IN  CASE risk = "BLOCK" -> count % BLOCK_EVERY_N = 0
          [] risk = "CRITICAL" -> count % CRITICAL_EVERY_N = 0
          [] risk = "WARN" -> count % WARN_EVERY_N = 0
          [] OTHER -> FALSE

MaxEvents == 5

MaxHooks == 2

\* the transcript sizes of the hook inputs, in bytes, by event; -1: no
\* transcript
TranscriptSizes ==
    [PreToolUse |-> {-1, 1024 * CRITICAL_TRANSCRIPT_KB - 1, 1024 * CRITICAL_TRANSCRIPT_KB},
     PostToolUse |-> {-1, 1024 * WARN_TRANSCRIPT_KB, 1024 * CRITICAL_TRANSCRIPT_KB}]

\* what a hook process finds on stdin: raw is "empty", "malformed" (no JSON),
\* "non_object" (JSON, not an object) or "object"; the other fields are what
\* hook_input.get gives, its defaults for an empty stdin
HookInput(raw, session_id, hook_event_name, tool_name, transcript) ==
    [raw |-> raw, session_id |-> session_id, hook_event_name |-> hook_event_name,
     tool_name |-> tool_name, transcript |-> transcript]

HookInputs ==
    {HookInput(raw, "unknown", "", "", -1) : raw \in {"empty", "malformed", "non_object"}}
    \cup {HookInput("object", "s1", "SessionStart", "", -1),
          HookInput("object", "s1", "Stop", "", -1)}
    \cup {HookInput("object", "s1", "PreToolUse", tool_name, transcript) :
             tool_name \in {"TaskCreate", "Read"},
             transcript \in TranscriptSizes.PreToolUse}
    \cup {HookInput("object", "s1", "PostToolUse", "Read", transcript) :
             transcript \in TranscriptSizes.PostToolUse}

\* the hook inputs of tool calls that run side by side
OverlappingInputs ==
    {HookInput("object", "s1", hook_event_name, "Read", -1) :
        hook_event_name \in {"SessionStart", "PreToolUse", "PostToolUse"}}

\* the state files a hook process can find: none, one that is no JSON, one
\* without the keys, one that earlier hook processes wrote
InitialStateFiles ==
    {StateFile("missing", <<>>, TRUE), StateFile("corrupt", <<>>, TRUE),
     StateFile("json", <<>>, TRUE), StateFile("json", [tool_calls |-> 3], TRUE),
     StateFile("json", [tool_calls |-> 29, warnings_given |-> 13], FALSE)}
    \cup {StateFile("json", [tool_calls |-> t, warnings_given |-> t \div 2], TRUE) :
             t \in {0, WARN_TOOL_CALLS - 1, CRITICAL_TOOL_CALLS - 1,
                    BLOCK_TOOL_CALLS - 1}}

\* a hook process: its position in main(), its stdin, its local state dict,
\* the risk it computed, what it will print and its exit code
NoHook == [pc |-> "none", input |-> HookInput("", "", "", "", -1),
           state |-> <<>>, risk |-> "", output |-> "", exit_code |-> -1]

\* what the finished hook processes did: n their number, since the counts of
\* those finished since the last SessionStart, streak the last PostToolUse
\* processes that computed one and the same risk (whether each injected a
\* warning, and whether a SessionStart came after it), last the process
\* that finished last
NoEvents ==
    [n |-> 0, reset |-> FALSE,
     since |-> [posts |-> 0, others |-> 0, failed |-> 0],
     streak |-> [risk |-> "", warned |-> <<>>, fresh |-> <<>>],
     last |-> NoHook]

InitHooks ==
    /\ pc = "hooks"
    /\ call = <<>>
    /\ ret = <<>>
    /\ NoLocals
    /\ \E file \in InitialStateFiles :
          state_files = [s1 |-> file, unknown |-> StateFile("missing", <<>>, TRUE)]
    /\ hook = [p \in 1..MaxHooks |-> NoHook]
    /\ events = NoEvents

\* the last n items of a sequence
LastN(seq, n) == IF Len(seq) <= n THEN seq ELSE SubSeq(seq, Len(seq) - n + 1, Len(seq))

\* events once the hook process h has exited
Finished(h) ==
    LET e == h.input.hook_event_name
        ok == h.exit_code = 0 /\ h.input.raw = "object"
    IN  IF ok /\ e = "SessionStart"
        THEN [events EXCEPT !.n = @ + 1, !.reset = TRUE,
                            !.since = [posts |-> 0, others |-> 0, failed |-> 0],
                            !.streak.fresh = IF @ = <<>> THEN @
                                             ELSE [@ EXCEPT ![Len(@)] = TRUE],
                            !.last = h]
        ELSE [events EXCEPT
                 !.n = @ + 1,
                 !.since = IF h.input.session_id # "s1" THEN @
                           ELSE IF ~ok THEN [@ EXCEPT !.failed = @ + 1]
                           ELSE IF e = "PostToolUse" THEN [@ EXCEPT !.posts = @ + 1]
                           ELSE [@ EXCEPT !.others = @ + 1],
                 !.streak = IF e # "PostToolUse" \/ h.risk = "" THEN @
                            ELSE IF h.risk = @.risk
                            THEN [@ EXCEPT
                                    !.warned = LastN(Append(@, h.output = "warning"),
                                                     WARN_EVERY_N),
                                    !.fresh = LastN(Append(@, FALSE), WARN_EVERY_N)]
                            ELSE [risk |-> h.risk,
                                  warned |-> <<h.output = "warning">>,
                                  fresh |-> <<FALSE>>],
                 !.last = h]

\* the hook process p ends with sys.exit(exit_code), or with the exit code 1
\* of an uncaught exception, having printed output
Exit(p, h, exit_code, output) ==
    LET done == [h EXCEPT !.pc = "exited", !.exit_code = exit_code, !.output = output]
    IN  /\ hook' = [hook EXCEPT ![p] = done]
        /\ events' = Finished(done)

\* the hook processes that have started and not exited
Running == {q \in DOMAIN hook : hook[q].pc \notin {"none", "exited"}}

\* a hook event fires: a hook process starts with the event on its stdin
HookFires(p) ==
    /\ hook[p].pc \in {"none", "exited"}
    /\ events.n < MaxEvents
    /\ \E input \in HookInputs :
          hook' = [hook EXCEPT ![p] = [NoHook EXCEPT !.pc = "main", !.input = input]]
    /\ UNCHANGED <<pc, call, ret, locals, state_files, events>>

\* the hook event of a tool call fires while the hook processes of other
\* tool calls may run; a session starts while no tool is being called
ToolHookFires(p) ==
    /\ hook[p].pc \in {"none", "exited"}
    /\ events.n + Cardinality(Running) < MaxEvents
    /\ \A q \in Running : hook[q].input.hook_event_name # "SessionStart"
    /\ \E input \in OverlappingInputs :
          /\ input.hook_event_name = "SessionStart" => Running = {}
          /\ hook' = [hook EXCEPT ![p] = [NoHook EXCEPT !.pc = "main", !.input = input]]
    /\ UNCHANGED <<pc, call, ret, locals, state_files, events>>

\* main(): stdin is read and parsed, the fields are taken with .get
ReadInput(p) ==
    /\ hook[p].pc = "main"
    /\ UNCHANGED <<pc, call, ret, locals>>
    /\ LET h == hook[p]
       IN  CASE h.input.raw = "malformed" -> Exit(p, h, 0, "")
             [] h.input.raw = "non_object" -> Exit(p, h, 1, "")   \* AttributeError
             [] OTHER ->
                  /\ hook' = [hook EXCEPT ![p].pc =
                                 IF h.input.hook_event_name = "SessionStart"
                                 THEN "reset" ELSE "state"]
                  /\ UNCHANGED events
    /\ UNCHANGED state_files

\* write_state, the open(path, "w") of it: the file is truncated, or the
\* open raises an error nothing catches
OpenForWrite(p, h) ==
    LET sid == h.input.session_id
    IN  IF state_files[sid].writable
        THEN /\ state_files' = [state_files EXCEPT ![sid].kind = "corrupt",
                                                   ![sid].value = <<>>]
             /\ hook' = [hook EXCEPT ![p] = [h EXCEPT !.pc = "dump"]]
             /\ UNCHANGED events
        ELSE /\ Exit(p, h, 1, "")
             /\ UNCHANGED state_files

\* SessionStart: the watchdog state is reset
SessionStart(p) ==
    /\ hook[p].pc = "reset"
    /\ UNCHANGED <<pc, call, ret, locals>>
    /\ OpenForWrite(p, [hook[p] EXCEPT
                           !.state = [tool_calls |-> 0, warnings_given |-> 0]])

\* state = read_state(session_id); state["tool_calls"] += 1; the risk
ReadState(p) ==
    /\ hook[p].pc = "state"
    /\ UNCHANGED <<pc, call, ret, locals>>
    /\ LET h == hook[p]
           state == read_state(state_files[h.input.session_id])
       IN  IF "tool_calls" \notin DOMAIN state
           THEN Exit(p, h, 1, "")                                  \* KeyError
           ELSE LET tool_calls == state.tool_calls + 1
                    transcript_kb == get_transcript_size_kb(h.input.transcript)
                IN  /\ hook' = [hook EXCEPT ![p] =
                          [h EXCEPT !.state = [state EXCEPT !.tool_calls = tool_calls],
                                    !.risk = classify_risk(tool_calls, transcript_kb),
                                    !.pc = CASE h.input.hook_event_name = "PreToolUse"
                                                  -> "pre"
                                             [] h.input.hook_event_name = "PostToolUse"
                                                  -> "post"
                                             [] OTHER -> "other"]]
                    /\ UNCHANGED events
    /\ UNCHANGED state_files

\* PreToolUse: an agent-spawning tool is denied when the risk is BLOCK or
\* CRITICAL; the state is written in both branches
PreToolUse(p) ==
    /\ hook[p].pc = "pre"
    /\ UNCHANGED <<pc, call, ret, locals>>
    /\ LET h == hook[p]
           deny == h.risk \in {"BLOCK", "CRITICAL"} /\ h.input.tool_name \in BLOCKED_TOOLS
       IN  OpenForWrite(p, [h EXCEPT !.output = IF deny THEN "deny" ELSE ""])

\* PostToolUse: a warning is injected when the risk and the throttle ask
\* for one; warnings_given is incremented and the state written in both
\* branches
PostToolUse(p) ==
    /\ hook[p].pc = "post"
    /\ UNCHANGED <<pc, call, ret, locals>>
    /\ LET h == hook[p]
       IN  IF "warnings_given" \notin DOMAIN h.state
           THEN /\ Exit(p, h, 1, "")                               \* KeyError
                /\ UNCHANGED state_files
           ELSE LET warn == h.risk # "OK" /\ should_emit_warning(h.state, h.risk)
                IN  OpenForWrite(p, [h EXCEPT !.state.warnings_given = @ + 1,
                                              !.output = IF warn THEN "warning" ELSE ""])

\* any other event: the state is written
UnknownEvent(p) ==
    /\ hook[p].pc = "other"
    /\ UNCHANGED <<pc, call, ret, locals>>
    /\ OpenForWrite(p, hook[p])

\* write_state, the json.dump of it and the close; then whatever the branch
\* prints, and sys.exit(0)
DumpState(p) ==
    /\ hook[p].pc = "dump"
    /\ UNCHANGED <<pc, call, ret, locals>>
    /\ LET h == hook[p]
       IN  /\ state_files' = [state_files EXCEPT
                                 ![h.input.session_id].kind = "json",
                                 ![h.input.session_id].value = h.state]
           /\ Exit(p, h, 0, h.output)

\* the hook processes of a session one after the other
NextHook ==
    \/ HookFires(1)
    \/ ReadInput(1)
    \/ SessionStart(1)
    \/ ReadState(1)
    \/ PreToolUse(1)
    \/ PostToolUse(1)
    \/ UnknownEvent(1)
    \/ DumpState(1)

SpecHook == InitHooks /\ [][NextHook]_vars

\* hook processes of a session that overlap
NextHooks ==
    \E p \in 1..MaxHooks :
        \/ ToolHookFires(p)
        \/ ReadInput(p)
        \/ SessionStart(p)
        \/ ReadState(p)
        \/ PreToolUse(p)
        \/ PostToolUse(p)
        \/ DumpState(p)

SpecHooks == InitHooks /\ [][NextHooks]_vars

----------------------------------------------------------------------------
(* Context watchdog: the claims *)

\* no hook process is between its start and its exit
Quiet == \A p \in DOMAIN hook : hook[p].pc \in {"none", "exited"}

\* C22: the stored tool_calls of the session equals the number of
\* PostToolUse events received since the last SessionStart, 0 right after
\* it; stated for the hook processes that ran to their sys.exit(0).
C22_ToolCallsCountsPostToolUse ==
    (Quiet /\ events.reset /\ events.since.failed = 0) =>
        /\ state_files.s1.kind = "json"
        /\ state_files.s1.value.tool_calls = events.since.posts

\* C23: a PreToolUse hook that computed its risk answers deny if and only if
\* the tool is TaskCreate, TeamCreate or SendMessage and tool_calls, this
\* event counted, is at least 50 or the transcript has at least 500 KB; and
\* once it has exited the incremented counter is in the state file.
C23_DenyIffBlockedToolAtCriticalRisk ==
    LET h == events.last
    IN  (h.input.raw = "object" /\ h.input.hook_event_name = "PreToolUse"
            /\ h.risk # "") =>
            /\ h.output = "deny" <=>
                  /\ h.input.tool_name \in {"TaskCreate", "TeamCreate", "SendMessage"}
                  /\ \/ h.state.tool_calls >= 50
                     \/ h.input.transcript >= 500 * 1024
            /\ Quiet =>
                  /\ state_files.s1.kind = "json"
                  /\ state_files.s1.value.tool_calls = h.state.tool_calls

\* C24: of the PostToolUse events in a row at one risk level, exactly one of
\* every 5 injects a warning at WARN, exactly one of every 2 at CRITICAL,
\* every one at BLOCK and none at OK.
C24_WarningThrottle ==
    LET warned == events.streak.warned
        n == Len(warned)
        Warnings(from) == Cardinality({k \in from..n : warned[k]})
    IN  CASE events.streak.risk = "OK" -> Warnings(1) = 0
          [] events.streak.risk = "BLOCK" -> Warnings(1) = n
          [] events.streak.risk = "CRITICAL" ->
                \A k \in 1..(n - 1) : warned[k] # warned[k + 1]
          [] events.streak.risk = "WARN" -> n = 5 => Warnings(1) = 1
          [] OTHER -> TRUE

\* C25: every hook process ends with exit code 0, whatever is on its stdin
\* and in its state file.
C25_ExitCodeZero ==
    \A p \in DOMAIN hook : hook[p].pc = "exited" => hook[p].exit_code = 0

\* C27: with hook processes that overlap no increment is lost: once the
\* hook processes started since a SessionStart have all exited with 0, the
\* stored tool_calls is their number.
C27_NoLostIncrement ==
    (Quiet /\ events.reset /\ events.since.failed = 0
        /\ state_files.s1.kind = "json") =>
        state_files.s1.value.tool_calls = events.since.posts + events.since.others

----------------------------------------------------------------------------
(* Section verification on SubagentStop
   (scripts/hooks/verify-section-on-stop.py) *)

\* JSON values as json.loads returns them; a str is its sequence of pieces
JsonNull == [t |-> "null", v |-> <<>>]
JsonStr(pieces) == [t |-> "str", v |-> pieces]
JsonList(items) == [t |-> "list", v |-> items]
JsonDict(fields) == [t |-> "dict", v |-> fields]

\* dict.get(key, default)
Get(d, key, default) == IF key \in DOMAIN d.v THEN d.v[key] ELSE default

\* the Write tool_use block of a transcript entry, with its input
WriteBlock(name, inp) ==
    JsonDict([type |-> JsonStr(<<"tool_use">>), name |-> JsonStr(<<name>>),
              input |-> inp])

\* file paths a subagent writes to
SectionPath ==
    [section_md |-> JsonStr(<<"sections/", "section-", "01", ".md">>),
     section_txt |-> JsonStr(<<"sections/", "section-", "01", ".txt">>),
     notes_md |-> JsonStr(<<"sections/", "notes", ".md">>)]

\* lines of a transcript file
TranscriptLines ==
    LET Json(value) == [kind |-> "json", entry |-> value]
        Entry(blocks) == Json(JsonDict([content |-> JsonList(blocks)]))
        Written(path) == WriteBlock("Write", JsonDict([file_path |-> path]))
    IN  {[kind |-> "blank", entry |-> JsonNull],
         [kind |-> "text", entry |-> JsonNull],
         [kind |-> "undecodable", entry |-> JsonNull],
         Json(JsonList(<<>>)),
         Json(JsonNull),
         Json(JsonDict([role |-> JsonStr(<<"assistant">>)])),
         Json(JsonDict([content |-> JsonStr(<<"done">>)])),
         Entry(<<JsonStr(<<"done">>), Written(SectionPath.section_md)>>),
         Entry(<<Written(SectionPath.notes_md), Written(SectionPath.section_txt)>>),
         Entry(<<WriteBlock("Read", JsonDict([file_path |-> SectionPath.section_md]))>>),
         Entry(<<WriteBlock("Write", JsonStr(<<"sections/">>))>>),
         Entry(<<Written(JsonNull)>>),
         Entry(<<WriteBlock("Write", JsonDict(<<>>))>>)}

MaxTranscriptLines == 2

\* transcript files: missing, still growing, or complete
Transcripts ==
    {[exists |-> FALSE, stable |-> FALSE, lines |-> <<>>]}
    \cup {[exists |-> TRUE, stable |-> st, lines |-> ls] :
            st \in BOOLEAN, ls \in SeqUpTo(TranscriptLines, MaxTranscriptLines)}

\* section files: the text has a length after strip() and the pieces found
\* in it
SectionText(length, starts, pieces) ==
    [kind |-> "text", length |-> length, starts |-> starts, pieces |-> pieces]

required_sections ==
    <<"## Context", "## What to Build", "## Tests to Write First",
      "## Acceptance Criteria">>

SectionFiles ==
    LET all == {required_sections[i] : i \in 1..Len(required_sections)} \cup {"- [ ]"}
    IN  {[kind |-> k, length |-> 0, starts |-> "", pieces |-> {}] :
            k \in {"missing", "directory", "unreadable", "undecodable"}}
        \cup {SectionText(len, st, ps) :
                len \in {99, 100}, st \in {"---", "# "},
                ps \in {all, all \ {"- [ ]"}, all \ {"## What to Build"}, {}}}

\* stdin of the hook
Payloads ==
    {[raw |-> r, payload |-> JsonNull] : r \in {"empty", "malformed", "undecodable"}}
    \cup {[raw |-> "json", payload |-> p] :
            p \in {JsonNull, JsonList(<<>>), JsonStr(<<"stop">>), JsonDict(<<>>),
                   JsonDict([agent_transcript_path |-> JsonStr(<<>>)]),
                   JsonDict([agent_transcript_path |-> JsonList(<<>>)]),
                   JsonDict([agent_transcript_path |-> JsonStr(<<"agent", ".jsonl">>)])}}

\* wait_for_stable_file: True once the size has stopped changing, False for
\* a file that is missing or still growing at the timeout
wait_for_stable_file(file) == file.exists /\ file.stable

\* the loop over the blocks of one entry: the file_path of the first Write
\* tool_use naming a section file, or the error the block raises
RECURSIVE ScanBlocks(_, _)
ScanBlocks(blocks, i) ==
    IF i > Len(blocks) THEN [error |-> "", found |-> JsonNull]
    ELSE LET block == blocks[i]
         IN  IF block.t = "dict"
                  /\ Get(block, "type", JsonNull) = JsonStr(<<"tool_use">>)
                  /\ Get(block, "name", JsonNull) = JsonStr(<<"Write">>)
             THEN LET inp == Get(block, "input", JsonDict(<<>>))
                      file_path == Get(inp, "file_path", JsonStr(<<>>))
                  IN  IF inp.t # "dict"
                      THEN [error |-> "AttributeError", found |-> JsonNull]
                      ELSE IF file_path.t # "str"
                      THEN [error |-> "TypeError", found |-> JsonNull]
                      ELSE IF /\ \E k \in DOMAIN file_path.v : file_path.v[k] = "section-"
                              /\ file_path.v # <<>>
                              /\ file_path.v[Len(file_path.v)] = ".md"
                      THEN [error |-> "", found |-> file_path]
                      ELSE ScanBlocks(blocks, i + 1)
             ELSE ScanBlocks(blocks, i + 1)

\* the loop over the lines of the transcript, each decoded as it is read
RECURSIVE ScanLines(_, _)
ScanLines(lines, i) ==
    IF i > Len(lines) THEN [error |-> "", found |-> JsonNull]
    ELSE LET line == lines[i]
         IN  CASE line.kind = "undecodable" ->
                    [error |-> "UnicodeDecodeError", found |-> JsonNull]
               [] line.kind \in {"blank", "text"} -> ScanLines(lines, i + 1)
               [] line.entry.t # "dict" ->
                    [error |-> "AttributeError", found |-> JsonNull]
               [] OTHER ->
                    LET content == Get(line.entry, "content", JsonStr(<<>>))
                        block == IF content.t = "list" THEN ScanBlocks(content.v, 1)
                                 ELSE [error |-> "", found |-> JsonNull]
                    IN  IF block.error # "" \/ block.found # JsonNull THEN block
                        ELSE ScanLines(lines, i + 1)

\* find_section_path_from_transcript: what the call can end with. The file
\* is decoded a buffer at a time, so bytes that are not UTF-8 raise either
\* when their line is reached or as soon as an earlier line is read.
find_section_path_from_transcript(file) ==
    IF ~file.exists THEN {[error |-> "", found |-> JsonNull]}     \* OSError, caught
    ELSE {ScanLines(file.lines, 1)}
         \cup {[error |-> "UnicodeDecodeError", found |-> JsonNull] : k \in
                 {j \in DOMAIN file.lines : file.lines[j].kind = "undecodable"}}

\* validate_section_file: the issues of a section file, or the error that
\* read_text raises other than OSError
validate_section_file(file) ==
    LET Issue(cond, name) == IF cond THEN <<name>> ELSE <<>>
        Missing(i) == Issue(required_sections[i] \notin file.pieces, required_sections[i])
    IN  CASE file.kind \in {"missing", "directory", "unreadable"} ->
                [error |-> "", issues |-> <<"Cannot read file">>]
          [] file.kind = "undecodable" ->
                [error |-> "UnicodeDecodeError", issues |-> <<>>]
          [] OTHER ->
                [error |-> "",
                 issues |-> Issue(file.length < 100, "File suspiciously short")
                            \o Issue(file.starts # "---", "Missing YAML frontmatter")
                            \o Missing(1) \o Missing(2) \o Missing(3) \o Missing(4)
                            \o Issue("- [ ]" \notin file.pieces,
                                     "No checkbox items in Acceptance Criteria")]

\* the hook is started with a payload on stdin, a transcript file and a
\* section file on disk
InitVerify ==
    /\ pc = "payload"
    /\ \E stdin \in Payloads, transcript \in Transcripts, section \in SectionFiles :
          /\ stdin.payload.t # "dict" =>
                (~transcript.exists /\ section.kind = "missing")
          /\ call = [fn |-> "main", stdin |-> stdin, transcript |-> transcript,
                     section |-> section, transcript_path |-> JsonNull,
                     section_path |-> JsonNull]
    /\ ret = <<>>
    /\ NoLocals
    /\ NoHooks

\* main returns value having printed output, or ends with an uncaught error
Return(value, error, output) ==
    /\ pc' = "done"
    /\ ret' = [value |-> value, error |-> error, output |-> output]
    /\ UNCHANGED <<call, locals, hookvars>>

\* main(), 1 and 2: the payload is parsed and the transcript path taken
ParsePayload ==
    /\ pc = "payload"
    /\ LET stdin == call.stdin
           payload == IF stdin.raw = "empty" THEN JsonDict(<<>>) ELSE stdin.payload
           transcript_path == Get(payload, "agent_transcript_path", JsonNull)
       IN  CASE stdin.raw \in {"malformed", "undecodable"} -> Return(0, "", "")
             [] payload.t # "dict" -> Return(-1, "AttributeError", "")
             [] transcript_path \in {JsonNull, JsonStr(<<>>), JsonList(<<>>)} ->
                    Return(0, "", "")
             [] OTHER ->
                    /\ pc' = "wait"
                    /\ call' = [call EXCEPT !.transcript_path = transcript_path]
                    /\ UNCHANGED <<ret, locals, hookvars>>

\* main(), 3: the transcript has to be stable
WaitForStableFile ==
    /\ pc = "wait"
    /\ IF call.transcript_path.t # "str" THEN Return(-1, "TypeError", "")
       ELSE IF ~wait_for_stable_file(call.transcript) THEN Return(0, "", "")
       ELSE /\ pc' = "find"
            /\ UNCHANGED <<call, ret, locals, hookvars>>

\* main(), 4: the section path is looked up in the transcript
FindSectionPath ==
    /\ pc = "find"
    /\ \E found \in find_section_path_from_transcript(call.transcript) :
          IF found.error # "" THEN Return(-1, found.error, "")
          ELSE IF found.found = JsonNull THEN Return(0, "", "")
          ELSE /\ pc' = "verify"
               /\ call' = [call EXCEPT !.section_path = found.found]
               /\ UNCHANGED <<ret, locals, hookvars>>

\* main(), 5 and 6: the section file has to exist and is validated
VerifySection ==
    /\ pc = "verify"
    /\ LET validated == validate_section_file(call.section)
       IN  IF call.section.kind = "missing"
           THEN Return(0, "", "[SECTION_VERIFICATION_FAILED]")
           ELSE IF validated.error # "" THEN Return(-1, validated.error, "")
           ELSE IF validated.issues # <<>>
           THEN Return(0, "", "[SECTION_VERIFICATION_WARNING]")
           ELSE Return(0, "", "")

NextVerify ==
    \/ ParsePayload
    \/ WaitForStableFile
    \/ FindSectionPath
    \/ VerifySection

SpecVerify == InitVerify /\ [][NextVerify]_vars

\* C26: main ends with return value 0 and no uncaught error, whatever the
\* payload, the transcript and the section file are.
C26_ReturnsZeroAlways ==
    pc = "done" => (ret.value = 0 /\ ret.error = "")

----------------------------------------------------------------------------
(* enumerate_source_files on one repository tree under two parent
   directories *)

\* directories a repository can be checked out under
Parent == [work |-> <<"/","w","o","r","k">>,
           ci_build |-> <<"/","c","i","/","b","u","i","l","d">>,
           my_project |-> <<"/","h","o","m","e","/","m","y","_","p","r","o","j","e","c","t">>]

\* the call for a tree under parent: the resolved repository path, what
\* os.walk yields below it and the files on disk by their full paths
Checkout(parent, tree) ==
    LET repo_path == join(parent, <<"r","e","p","o">>)
        at(k) == join(repo_path, tree[k].file)
    IN  [repo_path |-> repo_path,
         walk |-> [k \in 1..Len(tree) |-> tree[k].file],
         disk |-> [p \in {at(k) : k \in 1..Len(tree)} |->
                      tree[CHOOSE k \in 1..Len(tree) : at(k) = p]]]

InitCheckouts ==
    /\ pc = "call"
    /\ \E first \in {Parent.work, Parent.ci_build, Parent.my_project},
          second \in {Parent.work, Parent.ci_build, Parent.my_project},
          tree \in Trees(CatalogBeta),
          exclude_patterns \in {<<>>, <<<<"p","r","o","j","e","c","t">>>>, <<<<"h","e","l","p","e","r">>>>} :
         call = [fn |-> "enumerate_source_files",
                 first |-> Checkout(first, tree),
                 second |-> Checkout(second, tree),
                 exclude_patterns |-> exclude_patterns]
    /\ ret = <<>>
    /\ NoLocals
    /\ NoHooks

\* enumerate_source_files is called for each of the two checkouts
CallCheckouts ==
    /\ pc = "call"
    /\ pc' = "done"
    /\ ret' = [c \in {"first", "second"} |->
                  enumerate_source_files(call[c].repo_path, call.exclude_patterns,
                                         call[c].walk, call[c].disk, 1)]
    /\ UNCHANGED <<call, locals, hookvars>>

SpecCheckouts == InitCheckouts /\ [][CallCheckouts]_vars

\* C28: the same tree under two parent directories yields the same set of
\* relative paths.
C28_SameFilesUnderAnyParent ==
    pc = "done" =>
        {ret.first[k].file : k \in 1..Len(ret.first)}
            = {ret.second[k].file : k \in 1..Len(ret.second)}

----------------------------------------------------------------------------
(* check_file_coverage for elements whose names are not identifiers *)

\* names as the route, function and table patterns can capture them
CapturedNames ==
    {Name.api_users, Name.validateToken,
     <<"9","l","i","v","e","s">>,
     <<"u","s","e","r","-","l","i","s","t">>}

\* one file, its elements, and one readable document that names some of
\* them or the file
InitCaptured ==
    /\ pc = "call"
    /\ \E names \in SeqUpTo(CapturedNames, MaxDefs),
          lines \in SeqUpTo({ElementLine(n) : n \in CapturedNames}
                                \cup {MentionLine(basename(Path.auth_js))},
                            MaxDocLines) :
         LET directories ==
                 <<[path |-> "raw", isdir |-> TRUE,
                    files |-> <<[fname |-> Path.analysis_md, readable |-> TRUE,
                                 lines |-> lines]>>]>>
         IN  call = [fn |-> "check_file_coverage",
                     source_file |-> [file |-> Path.auth_js, source_lines |-> 50],
                     elements |-> [k \in 1..Len(names) |->
                                      [name |-> names[k], type |-> "route", line |-> k]],
                     directories |-> directories,
                     analysis_index |-> AnalysisIndex_build(directories)]
    /\ ret = <<>>
    /\ NoLocals
    /\ NoHooks

SpecCaptured == InitCaptured /\ [][NextCoverage]_vars

\* the elements of the call whose names are identifiers: letters, digits and
\* underscores only, not starting with a digit
IdentifierNamed ==
    {k \in 1..Len(call.elements) :
        /\ IsWord(call.elements[k].name)
        /\ IsIdentStart(call.elements[k].name[1])}

----------------------------------------------------------------------------
(* run_audit on the same files enumerated in another order *)

\* files under Repo.alpha of which two make gaps with one sort key and two
\* define an element with the same number of callers
CatalogTied == {
    File(Path.auth_js, <<Line("function", Name.validateToken),
                         Line("ref", Name.doLogin)>>, 0),
    File(Path.login_js, <<Line("function", Name.doLogin),
                          Line("ref", Name.validateToken)>>, 0),
    File(Path.session_js, <<Line("ref", Name.validateToken),
                            Line("ref", Name.doLogin)>>, 0) }

\* the orders os.walk can yield the files of a walk in: the same files, those
\* of one directory together
Reorderings(walk) ==
    {p \in [1..Len(walk) -> {walk[k] : k \in 1..Len(walk)}] :
        /\ \A j, k \in 1..Len(p) : j # k => p[j] # p[k]
        /\ \A j, k \in 1..Len(p) : \A m \in j..k :
              dirname(p[j]) = dirname(p[k]) => dirname(p[m]) = dirname(p[j])}

InitOrders ==
    /\ pc = "enumerate"
    /\ \E ta \in Trees(CatalogTied), tb \in Trees(CatalogBeta),
          raw_lines \in SeqUpTo({DocLine.raw}, 1) :
         /\ Len(ta) + Len(tb) <= MaxFiles
         /\ call = AuditCall([repos |-> <<[name |-> "alpha", path |-> Repo.alpha],
                                          [name |-> "beta", path |-> Repo.beta]>>],
                             ta, tb, raw_lines, <<DocLine.details>>)
    /\ ret = <<>>
    /\ NoLocals
    /\ NoHooks

\* run_audit called again on the same repositories and documents, os.walk
\* yielding the files in another order; call.first keeps the first call and
\* its report
RunReordered ==
    /\ pc = "done"
    /\ "first" \notin DOMAIN call
    /\ \E wa \in Reorderings(call.walk[Repo.alpha]),
          wb \in Reorderings(call.walk[Repo.beta]) :
          call' = [first |-> [call |-> call, ret |-> ret]]
                      @@ [call EXCEPT !.walk = (Repo.alpha :> wa) @@ (Repo.beta :> wb)]
    /\ ret' = <<>>
    /\ pc' = "enumerate"
    /\ sf_index' = 1
    /\ all_source_files' = <<>>
    /\ all_elements_by_file' = <<>>
    /\ total_elements' = 0
    /\ analysis_index' = [_index |-> <<>>, _filename_index |-> <<>>, _built |-> FALSE]
    /\ coverage_counts' = [adequate |-> 0, shallow |-> 0, missing |-> 0]
    /\ gaps' = <<>>
    /\ total_elements_covered' = 0
    /\ shared_elements' = <<>>
    /\ triage' = <<>>
    /\ UNCHANGED hookvars

NextOrders ==
    \/ Next
    \/ RunReordered

SpecOrders == InitOrders /\ [][NextOrders]_vars

\* the two lists hold the same entries the same number of times
SameMultiset(s, t) ==
    \A x \in {s[k] : k \in 1..Len(s)} \cup {t[k] : k \in 1..Len(t)} :
        Cardinality({k \in 1..Len(s) : s[k] = x})
            = Cardinality({k \in 1..Len(t) : t[k] = x})

\* the sort keys of a list of gaps, and of a list of shared elements
GapKeys(gap_list) == [k \in 1..Len(gap_list) |-> GapSortKey(gap_list[k])]

CallerCounts(shared) == [k \in 1..Len(shared) |-> shared[k].caller_count]

\* where the run extracted a shared element: the place of its file in
\* all_elements_by_file, then the place of the element in the file
ExtractedAt(s) ==
    LET f == CHOOSE k \in 1..Len(all_elements_by_file) :
                 all_elements_by_file[k].key = s.defined_in
        elements == all_elements_by_file[f].value
    IN  <<f, CHOOSE e \in 1..Len(elements) :
                 /\ elements[e].name = s.name
                 /\ elements[e].type = s.type
                 /\ elements[e].line = s.line>>

\* C30: gaps of one sort key stand in the order their files were enumerated
\* and shared elements of one caller_count in the order they were extracted;
\* a run on the same files enumerated in another order returns the same
\* multisets of gaps and of shared elements, with the same sequence of sort
\* keys.
C30_StableSortsUnderReordering ==
    DoneAgain =>
        /\ \A i, j \in 1..Len(ret.gaps) :
              (i < j /\ GapSortKey(ret.gaps[i]) = GapSortKey(ret.gaps[j]))
                  => EnumeratedAt(ret.gaps[i]) < EnumeratedAt(ret.gaps[j])
        /\ \A i, j \in 1..Len(ret.shared_elements) :
              (i < j /\ ret.shared_elements[i].caller_count
                            = ret.shared_elements[j].caller_count)
                  => TupleLess(ExtractedAt(ret.shared_elements[i]),
                               ExtractedAt(ret.shared_elements[j]))
        /\ SameMultiset(ret.gaps, call.first.ret.gaps)
        /\ SameMultiset(ret.shared_elements, call.first.ret.shared_elements)
        /\ GapKeys(ret.gaps) = GapKeys(call.first.ret.gaps)
        /\ CallerCounts(ret.shared_elements) = CallerCounts(call.first.ret.shared_elements)

\* C30 witness: the second run enumerated the files in another order and
\* returns two gaps of one sort key and two shared elements of one
\* caller_count, each pair in the other order than in the first report
C30_Witness ==
    /\ DoneAgain
    /\ call.walk # call.first.call.walk
    /\ \E i \in 1..(Len(ret.gaps) - 1) :
          /\ GapSortKey(ret.gaps[i]) = GapSortKey(ret.gaps[i + 1])
          /\ ret.gaps[i] = call.first.ret.gaps[i + 1]
          /\ ret.gaps[i + 1] = call.first.ret.gaps[i]
          /\ ret.gaps[i] # ret.gaps[i + 1]
    /\ \E i \in 1..(Len(ret.shared_elements) - 1) :
          /\ ret.shared_elements[i].caller_count
                 = ret.shared_elements[i + 1].caller_count
          /\ ret.shared_elements[i] = call.first.ret.shared_elements[i + 1]
          /\ ret.shared_elements[i + 1] = call.first.ret.shared_elements[i]
          /\ ret.shared_elements[i] # ret.shared_elements[i + 1]

====
